---- MODULE Spec2Model ----
(***************************************************************************)
(* serde-bencode: the token lexer and Deserializer (src/src/de.rs), the    *)
(* Serializer with its sort-and-buffer SerializeMap (src/src/ser.rs), the  *)
(* key-only StringSerializer (src/src/ser/string.rs) and the untyped       *)
(* Value model (src/src/value.rs).                                         *)
(*                                                                         *)
(* Bytes are their ASCII codes.  Machine words are modelled WordBits wide  *)
(* instead of 64 bits wide: i64 is -2^(WordBits-1) .. 2^(WordBits-1)-1,    *)
(* usize is 0 .. 2^WordBits-1 and isize::MAX is 2^(WordBits-1)-1.          *)
(***************************************************************************)
EXTENDS Integers, Sequences, FiniteSets, TLC

\* ------------------------------------------------------------------ bounds
WordBits == 5
MaxInputLen == 5
MaxElems == 2

\* ------------------------------------------------------------ byte values
CH_i == 105
CH_l == 108
CH_d == 100
CH_e == 101
CH_colon == 58
CH_0 == 48
CH_9 == 57
CH_minus == 45
CH_plus == 43
CH_x == 120
CH_a == 97
CH_b == 98
CH_nonutf8 == 255

I64_MAX == 2^(WordBits - 1) - 1
I64_MIN == -(2^(WordBits - 1))
USIZE_MAX == 2^WordBits - 1
ISIZE_MAX == 2^(WordBits - 1) - 1

IsDigit(c) == c >= CH_0 /\ c <= CH_9

\* core::str::from_utf8 (also String::from_utf8): the well-formed byte
\* sequences of UTF-8.  Width of the sequence a first byte opens, 0 for a
\* byte that opens none.
Utf8Width(b) ==
  IF b < 128 THEN 1
  ELSE IF b >= 194 /\ b <= 223 THEN 2
  ELSE IF b >= 224 /\ b <= 239 THEN 3
  ELSE IF b >= 240 /\ b <= 244 THEN 4
  ELSE 0

Utf8Cont(b) == b >= 128 /\ b <= 191

Utf8SeqOk(q) ==
  CASE Len(q) = 1 -> TRUE
    [] Len(q) = 2 -> Utf8Cont(q[2])
    [] Len(q) = 3 ->
         /\ IF q[1] = 224 THEN q[2] >= 160 /\ q[2] <= 191
            ELSE IF q[1] = 237 THEN q[2] >= 128 /\ q[2] <= 159
            ELSE Utf8Cont(q[2])
         /\ Utf8Cont(q[3])
    [] Len(q) = 4 ->
         /\ IF q[1] = 240 THEN q[2] >= 144 /\ q[2] <= 191
            ELSE IF q[1] = 244 THEN q[2] >= 128 /\ q[2] <= 143
            ELSE Utf8Cont(q[2])
         /\ Utf8Cont(q[3]) /\ Utf8Cont(q[4])

\* A check that takes only ASCII for text.
IsAsciiOnly(b) == \A k \in 1..Len(b) : b[k] < 128

RECURSIVE IsUtf8(_)
IsUtf8(s) ==
  IF s = <<>> THEN TRUE
  ELSE LET n == Utf8Width(s[1])
       IN /\ n # 0 /\ Len(s) >= n
          /\ Utf8SeqOk(SubSeq(s, 1, n))
          /\ IsUtf8(SubSeq(s, n + 1, Len(s)))

\* A char cut down to one byte, the way `value as u8` does.
encode_as_u8(c) == <<c % 256>>

\* char::encode_utf8: the UTF-8 bytes of a code point.
encode_utf8(c) ==
  IF c < 128 THEN <<c>>
  ELSE IF c < 2048 THEN <<192 + (c \div 64), 128 + (c % 64)>>
  ELSE IF c < 65536
  THEN <<224 + (c \div 4096), 128 + ((c \div 64) % 64), 128 + (c % 64)>>
  ELSE <<240 + (c \div 262144), 128 + ((c \div 4096) % 64),
         128 + ((c \div 64) % 64), 128 + (c % 64)>>

\* ------------------------------------------------------- decimal <-> int
RECURSIVE NatDigits(_)
NatDigits(n) ==
  IF n < 10 THEN <<CH_0 + n>>
  ELSE Append(NatDigits(n \div 10), CH_0 + (n % 10))

\* i64's Display without the sign: what RoundTripValue has to notice.
to_string_unsigned(n) == NatDigits(IF n < 0 THEN -n ELSE n)

\* i64::to_string / usize::to_string
to_string(n) == IF n < 0 THEN <<CH_minus>> \o NatDigits(-n) ELSE NatDigits(n)

\* Accumulates ASCII digits the way core::num's from_str does, with the
\* checked multiply/add: -1 stands for the overflow (or invalid digit) error.
RECURSIVE DigitsValue(_, _, _)
DigitsValue(s, acc, max) ==
  IF s = <<>> THEN acc
  ELSE IF ~IsDigit(Head(s)) THEN -1
  ELSE LET v == acc * 10 + (Head(s) - CH_0)
       IN IF v > max THEN -1 ELSE DigitsValue(Tail(s), v, max)

\* <i64 as FromStr>::from_str: optional '+' or '-', then at least one digit.
\* Result: [ok |-> BOOLEAN, v |-> Int].
parse_i64(s) ==
  IF s = <<>> THEN [ok |-> FALSE, v |-> 0]
  ELSE IF Head(s) = CH_minus
    THEN IF Tail(s) = <<>> THEN [ok |-> FALSE, v |-> 0]
         ELSE LET m == DigitsValue(Tail(s), 0, -I64_MIN)
              IN IF m < 0 THEN [ok |-> FALSE, v |-> 0] ELSE [ok |-> TRUE, v |-> -m]
  ELSE LET d == IF Head(s) = CH_plus THEN Tail(s) ELSE s
       IN IF d = <<>> THEN [ok |-> FALSE, v |-> 0]
          ELSE LET m == DigitsValue(d, 0, I64_MAX)
               IN IF m < 0 THEN [ok |-> FALSE, v |-> 0] ELSE [ok |-> TRUE, v |-> m]

\* <usize as FromStr>::from_str: optional '+', then at least one digit.
parse_usize(s) ==
  LET d == IF s # <<>> /\ Head(s) = CH_plus THEN Tail(s) ELSE s
  IN IF d = <<>> THEN [ok |-> FALSE, v |-> 0]
     ELSE LET m == DigitsValue(d, 0, USIZE_MAX)
          IN IF m < 0 THEN [ok |-> FALSE, v |-> 0] ELSE [ok |-> TRUE, v |-> m]

\* ------------------------------------------------------------------ tokens
\* ParseResult (de.rs): Int(i64), Bytes(Vec<u8>), List, Map, End.
TInt(n) == <<"Int", n>>
TBytes(b) == <<"Bytes", b>>
TList == <<"List">>
TMap == <<"Map">>
TEnd == <<"End">>
NoToken == <<"None">>

\* A lexer outcome: st is "ok", "err" or "panic"; pos is the number of input
\* bytes the reader has handed out; nxt is the pushback slot afterwards.
LexOk(tok, p, n) == [st |-> "ok", tok |-> tok, err |-> "", pos |-> p, nxt |-> n]
LexErr(kind, p, n) == [st |-> "err", tok |-> NoToken, err |-> kind, pos |-> p, nxt |-> n]
LexPanic(p, n) == [st |-> "panic", tok |-> NoToken, err |-> "", pos |-> p, nxt |-> n]

\* The index of the first byte c after position p, or 0 when the input ends
\* first: the one-byte read loops of parse_int and parse_bytes_len.
RECURSIVE ScanTo(_, _, _)
ScanTo(inp, p, c) ==
  IF p >= Len(inp) THEN 0
  ELSE IF inp[p + 1] = c THEN p + 1
  ELSE ScanTo(inp, p + 1, c)

\* Deserializer::parse_int, entered after the leading 'i' (p bytes consumed).
parse_int(inp, p) ==
  LET j == ScanTo(inp, p, CH_e)
  IN IF j = 0 THEN LexErr("EndOfStream", Len(inp), NoToken)
     ELSE LET span == SubSeq(inp, p + 1, j - 1)
          IN IF ~IsUtf8(span) THEN LexErr("InvalidValue", j, NoToken)
             ELSE LET r == parse_i64(span)
                  IN IF r.ok THEN LexOk(TInt(r.v), j, NoToken)
                     ELSE LexErr("InvalidValue", j, NoToken)

\* Deserializer::parse_bytes_len: the length digits start with len_char, the
\* byte at position p; reads up to ':'.  tok carries the length as Int.
parse_bytes_len(inp, p) ==
  LET j == ScanTo(inp, p, CH_colon)
  IN IF j = 0 THEN LexErr("EndOfStream", Len(inp), NoToken)
     ELSE LET span == SubSeq(inp, p, j - 1)
          IN IF ~IsUtf8(span) THEN LexErr("InvalidValue", j, NoToken)
             ELSE LET r == parse_usize(span)
                  IN IF r.ok THEN LexOk(TInt(r.v), j, NoToken)
                     ELSE LexErr("InvalidValue", j, NoToken)

\* <&[u8] as Read>::read into a buffer of n bytes: hands out what is left,
\* at most n.
SliceRead(inp, p, n) == IF Len(inp) - p < n THEN Len(inp) - p ELSE n

\* A parse_bytes that takes whatever the one read returned, short or not.
parse_bytes_short(inp, p) ==
  LET l == parse_bytes_len(inp, p)
  IN IF l.st # "ok" THEN l
     ELSE LET len == l.tok[2]
              actual_len == SliceRead(inp, l.pos, len)
          IN IF len > ISIZE_MAX THEN LexPanic(l.pos, NoToken)
             ELSE LexOk(TBytes(SubSeq(inp, l.pos + 1, l.pos + actual_len)),
                        l.pos + actual_len, NoToken)

\* Deserializer::parse_bytes: vec![0u8; len] panics with "capacity overflow"
\* when len exceeds isize::MAX; then one read of len bytes.
parse_bytes(inp, p) ==
  LET l == parse_bytes_len(inp, p)
  IN IF l.st # "ok" THEN l
     ELSE LET len == l.tok[2]
              actual_len == SliceRead(inp, l.pos, len)
          IN IF len > ISIZE_MAX THEN LexPanic(l.pos, NoToken)
             ELSE IF len # actual_len THEN LexErr("EndOfStream", l.pos + actual_len, NoToken)
             ELSE LexOk(TBytes(SubSeq(inp, l.pos + 1, l.pos + len)), l.pos + len, NoToken)

\* A parse that hands the pushed-back token out and leaves it in the slot.
parse_keep(inp, p, nxt) ==
  IF nxt # NoToken THEN LexOk(nxt, p, nxt)
  ELSE IF SliceRead(inp, p, 1) # 1 THEN LexErr("EndOfStream", p, NoToken)
  ELSE LET c == inp[p + 1]
       IN IF c = CH_i THEN parse_int(inp, p + 1)
          ELSE IF IsDigit(c) THEN parse_bytes(inp, p + 1)
          ELSE IF c = CH_l THEN LexOk(TList, p + 1, NoToken)
          ELSE IF c = CH_d THEN LexOk(TMap, p + 1, NoToken)
          ELSE IF c = CH_e THEN LexOk(TEnd, p + 1, NoToken)
          ELSE LexErr("InvalidValue", p + 1, NoToken)

\* A parse that takes a byte no token starts with for the end of the input.
parse_unknown_as_end(inp, p, nxt) ==
  IF nxt # NoToken THEN LexOk(nxt, p, NoToken)
  ELSE IF SliceRead(inp, p, 1) # 1 THEN LexErr("EndOfStream", p, NoToken)
  ELSE LET c == inp[p + 1]
       IN IF c = CH_i THEN parse_int(inp, p + 1)
          ELSE IF IsDigit(c) THEN parse_bytes(inp, p + 1)
          ELSE IF c = CH_l THEN LexOk(TList, p + 1, NoToken)
          ELSE IF c = CH_d THEN LexOk(TMap, p + 1, NoToken)
          ELSE IF c = CH_e THEN LexOk(TEnd, p + 1, NoToken)
          ELSE LexErr("EndOfStream", p + 1, NoToken)

\* Deserializer::parse: the pushed-back token if there is one, else the next
\* token of the reader.
parse(inp, p, nxt) ==
  IF nxt # NoToken THEN LexOk(nxt, p, NoToken)
  ELSE IF SliceRead(inp, p, 1) # 1 THEN LexErr("EndOfStream", p, NoToken)
  ELSE LET c == inp[p + 1]
       IN IF c = CH_i THEN parse_int(inp, p + 1)
          ELSE IF IsDigit(c) THEN parse_bytes(inp, p + 1)
          ELSE IF c = CH_l THEN LexOk(TList, p + 1, NoToken)
          ELSE IF c = CH_d THEN LexOk(TMap, p + 1, NoToken)
          ELSE IF c = CH_e THEN LexOk(TEnd, p + 1, NoToken)
          ELSE LexErr("InvalidValue", p + 1, NoToken)

\* -------------------------------------------------------------- values
\* Rust values, tagged.  Value (value.rs): <<"Int", n>>, <<"Bytes", b>>,
\* <<"List", seq>>, <<"Dict", m>>.  As a serializer input a Dict is the
\* sequence of its <<key, value>> entries in the order the HashMap iterator
\* yields them; as a decoded value it is a function from keys to values.
\* Typed values: <<"i64", n>>, <<"str", b>>, <<"vec", seq>>, <<"tuple", seq>>,
\* <<"tuple_struct", seq>>, <<"struct", seq of <<name, value>> >>,
\* <<"unit_variant", tag>>, <<"newtype_variant", tag, value>>,
\* <<"tuple_variant", tag, seq>>, <<"struct_variant", tag, fields>>,
\* <<"none">>, <<"some", value>>, <<"f64">>, <<"unit">>.
SerOk(b) == [ok |-> TRUE, bytes |-> b, err |-> ""]
SerErr(kind) == [ok |-> FALSE, bytes |-> <<>>, err |-> kind]

\* <Vec<u8> as Ord>::cmp(a, b) = Less
RECURSIVE BytesLess(_, _)
BytesLess(a, b) ==
  IF b = <<>> THEN FALSE
  ELSE IF a = <<>> THEN TRUE
  ELSE IF Head(a) # Head(b) THEN Head(a) < Head(b)
  ELSE BytesLess(Tail(a), Tail(b))

\* Serializer::serialize_i64
serialize_i64(value) == <<CH_i>> \o to_string(value) \o <<CH_e>>

\* A conversion of u64 to i64 that saturates instead of wrapping.
as_i64_saturating(value) == IF value > I64_MAX THEN I64_MAX ELSE value

\* `value as i64` of a u64: the same bits, read as two's complement.
as_i64(value) == IF value > I64_MAX THEN value - 2^WordBits ELSE value

\* Serializer::serialize_u64
serialize_u64(value) == serialize_i64(as_i64(value))

\* Serializer::serialize_bytes
serialize_bytes(value) == to_string(Len(value)) \o <<CH_colon>> \o value

\* StringSerializer (ser/string.rs): the raw bytes of a byte string or str,
\* with no length prefix; of a char the one byte `value as u8`; everything
\* else is `unexpected`, which builds de::Error::invalid_type.
string_serialize_prefixed(key) ==
  IF key[1] \in {"Bytes", "str"} THEN SerOk(serialize_bytes(key[2]))
  ELSE IF key[1] = "char" THEN SerOk(serialize_bytes(<<key[2] % 256>>))
  ELSE SerErr("InvalidType")

string_serialize(key) ==
  IF key[1] \in {"Bytes", "str"} THEN SerOk(key[2])
  ELSE IF key[1] = "char" THEN SerOk(<<key[2] % 256>>)
  ELSE SerErr("InvalidType")

\* Orderings end_map could have used instead of the raw key bytes: by the
\* length-prefixed token of the key, or the order the entries arrived in.
RECURSIVE InsertByToken(_, _)
InsertByToken(sorted, e) ==
  IF sorted = <<>> THEN <<e>>
  ELSE IF BytesLess(serialize_bytes(e[1]), serialize_bytes(Head(sorted)[1]))
       THEN <<e>> \o sorted
  ELSE <<Head(sorted)>> \o InsertByToken(Tail(sorted), e)

RECURSIVE sort_by_token(_)
sort_by_token(entries) ==
  IF entries = <<>> THEN <<>>
  ELSE InsertByToken(sort_by_token(SubSeq(entries, 1, Len(entries) - 1)),
                     entries[Len(entries)])

unsorted(entries) == entries

\* entries.sort_by(|a, b| a.0.cmp(&b.0)): a stable sort on the raw key bytes.
RECURSIVE InsertSorted(_, _)
InsertSorted(sorted, e) ==
  IF sorted = <<>> THEN <<e>>
  ELSE IF BytesLess(e[1], Head(sorted)[1]) THEN <<e>> \o sorted
  ELSE <<Head(sorted)>> \o InsertSorted(Tail(sorted), e)

RECURSIVE sort_by_key(_)
sort_by_key(entries) ==
  IF entries = <<>> THEN <<>>
  ELSE InsertSorted(sort_by_key(SubSeq(entries, 1, Len(entries) - 1)),
                    entries[Len(entries)])

\* The loop of end_map: each key as a byte-string token, then its value bytes.
RECURSIVE EmitEntries(_)
EmitEntries(entries) ==
  IF entries = <<>> THEN <<>>
  ELSE serialize_bytes(Head(entries)[1]) \o Head(entries)[2] \o EmitEntries(Tail(entries))

\* An end_map that writes the entries in the order they arrived.
end_map_as_fed(m) ==
  IF m.cur_key # <<>> THEN SerErr("InvalidValue")
  ELSE SerOk(<<CH_d>> \o EmitEntries(m.entries) \o <<CH_e>>)

\* SerializeMap::end_map: a pending key is an error; else sort, then
\* "d" entries "e".  m is [entries, cur_key] with cur_key <<>> (None) or <<k>>.
end_map(m) ==
  IF m.cur_key # <<>> THEN SerErr("InvalidValue")
  ELSE SerOk(<<CH_d>> \o EmitEntries(sort_by_key(m.entries)) \o <<CH_e>>)

\* SerializeMap::new
NewMap == [entries |-> <<>>, cur_key |-> <<>>]

\* A SerializeMap that keeps an entry whatever its value encoded to.
PushEntryAlways(m, key, value) == [m EXCEPT !.entries = Append(@, <<key, value>>)]

\* The tail of serialize_value / serialize_entry: an entry whose value encoded
\* to nothing is dropped.
PushEntry(m, key, value) ==
  IF value # <<>> THEN [m EXCEPT !.entries = Append(@, <<key, value>>)] ELSE m

\* A tuple variant closed like a plain sequence, with one `e`.
SerializeSeq_end_only == <<CH_e>>

\* SerializeTupleVariant::end: closes the list and the wrapping dict.
SerializeTupleVariant_end == <<CH_e, CH_e>>

RECURSIVE Serialize(_)
RECURSIVE SerializeElements(_)
RECURSIVE SerializeEntries(_, _)

\* serialize_element / serialize_field over the elements of a sequence
SerializeElements(elems) ==
  IF elems = <<>> THEN SerOk(<<>>)
  ELSE LET h == Serialize(Head(elems))
       IN IF ~h.ok THEN h
          ELSE LET t == SerializeElements(Tail(elems))
               IN IF ~t.ok THEN t ELSE SerOk(h.bytes \o t.bytes)

\* SerializeMap::serialize_entry for each <<key, value>> in turn, each value
\* into a Serializer of its own; the result is the SerializeMap, or the error.
SerializeEntries(m, entries) ==
  IF entries = <<>> THEN [ok |-> TRUE, map |-> m, err |-> ""]
  ELSE IF m.cur_key # <<>> THEN [ok |-> FALSE, map |-> m, err |-> "InvalidValue"]
  ELSE LET k == string_serialize(Head(entries)[1])
       IN IF ~k.ok THEN [ok |-> FALSE, map |-> m, err |-> k.err]
          ELSE LET v == Serialize(Head(entries)[2])
               IN IF ~v.ok THEN [ok |-> FALSE, map |-> m, err |-> v.err]
                  ELSE SerializeEntries(PushEntry(m, k.bytes, v.bytes), Tail(entries))

\* serialize_map / serialize_struct, the entries, then end
SerializeDict(entries) ==
  LET r == SerializeEntries(NewMap, entries)
  IN IF ~r.ok THEN SerErr(r.err) ELSE end_map(r.map)

\* The keys of a Dict are fed as serde_bytes::Bytes, those of a struct as &str.
KeyedAs(kind, entries) == [k \in 1..Len(entries) |-> <<<<kind, entries[k][1]>>, entries[k][2]>>]

\* <T as Serialize>::serialize(&mut Serializer): the bytes appended.
Serialize(x) ==
  CASE x[1] \in {"Int", "i64", "u8"} -> SerOk(serialize_i64(x[2]))
    [] x[1] = "u64" -> SerOk(serialize_u64(x[2]))
    [] x[1] \in {"Bytes", "str"} -> SerOk(serialize_bytes(x[2]))
    [] x[1] = "char" -> SerOk(serialize_bytes(encode_utf8(x[2])))
    [] x[1] = "bool" -> SerOk(serialize_i64(IF x[2] THEN 1 ELSE 0))
    [] x[1] \in {"List", "vec", "tuple", "tuple_struct"} ->
         LET r == SerializeElements(x[2])
         IN IF ~r.ok THEN r ELSE SerOk(<<CH_l>> \o r.bytes \o <<CH_e>>)
    [] x[1] = "Dict" -> SerializeDict(KeyedAs("Bytes", x[2]))
    [] x[1] = "struct" -> SerializeDict(KeyedAs("str", x[2]))
    [] x[1] = "map" -> SerializeDict(x[2])
    [] x[1] = "unit_variant" -> SerOk(serialize_bytes(x[2]))
    [] x[1] = "newtype_variant" ->
         LET r == Serialize(x[3])
         IN IF ~r.ok THEN r
            ELSE SerOk(<<CH_d>> \o serialize_bytes(x[2]) \o r.bytes \o <<CH_e>>)
    [] x[1] = "tuple_variant" ->
         LET r == SerializeElements(x[3])
         IN IF ~r.ok THEN r
            ELSE SerOk(<<CH_d>> \o serialize_bytes(x[2]) \o <<CH_l>> \o r.bytes
                       \o SerializeTupleVariant_end)
    [] x[1] = "struct_variant" ->
         LET r == SerializeDict(KeyedAs("str", x[3]))
         IN IF ~r.ok THEN r
            ELSE SerOk(<<CH_d>> \o serialize_bytes(x[2]) \o r.bytes \o <<CH_e>>)
    [] x[1] \in {"none", "unit"} -> SerOk(<<>>)
    [] x[1] = "some" -> Serialize(x[2])
    [] x[1] = "f64" -> SerErr("InvalidValue")

\* to_bytes
to_bytes(x) == Serialize(x)

\* to_string: the bytes, when they are UTF-8
to_string_utf8(x) ==
  LET r == Serialize(x)
  IN IF ~r.ok THEN r
     ELSE IF IsUtf8(r.bytes) THEN r ELSE SerErr("InvalidValue")

\* ----------------------------------------------------------- type binding
\* The target of a decode: <<"Value">>, <<"i64">>, <<"u8">>, <<"ByteBuf">>,
\* <<"String">>, <<"IgnoredAny">>, <<"Vec", T>>, <<"tuple", Ts>>,
\* <<"tuple_struct", Ts>>, <<"struct", seq of <<name, T>> >>,
\* <<"field", fields>> (a struct's field identifier),
\* <<"variant_ident", variants>> (an enum's variant identifier) and
\* <<"enum", seq of <<tag, kind, payload>> >> with kind "unit", "newtype"
\* (payload a type), "tuple" (payload a sequence of types) or "struct"
\* (payload a sequence of fields).
TyValue == <<"Value">>
TyI64 == <<"i64">>
TyU8 == <<"u8">>
TyByteBuf == <<"ByteBuf">>
TyString == <<"String">>
TyIgnoredAny == <<"IgnoredAny">>

\* The Deserialize impls whose Deserializer method is forwarded to
\* deserialize_any (forward_to_deserialize_any!, de.rs).
ForwardedToAny ==
  {"Value", "i64", "u8", "ByteBuf", "IgnoredAny", "Vec", "tuple", "tuple_struct",
   "struct", "field", "variant_ident", "HashMap"}

VisOk(v) == [ok |-> TRUE, v |-> v, err |-> ""]
VisErr(kind) == [ok |-> FALSE, v |-> <<"unit">>, err |-> kind]

\* The index of the entry named name in a sequence of <<name, ...>> tuples, or 0.
IndexOf(entries, name) ==
  IF \E k \in 1..Len(entries) : entries[k][1] = name
  THEN CHOOSE k \in 1..Len(entries) : entries[k][1] = name
  ELSE 0

\* Visitor::visit_i64 of each target's visitor (ValueVisitor: value.rs; the
\* others are serde's: the default is Error::invalid_type).
visit_i64(T, i) ==
  CASE T[1] = "Value" -> VisOk(<<"Int", i>>)
    [] T[1] = "i64" -> VisOk(<<"i64", i>>)
    [] T[1] = "u8" -> IF i >= 0 /\ i <= 255 THEN VisOk(<<"u8", i>>)
                      ELSE VisErr("InvalidValue")
    [] T[1] = "IgnoredAny" -> VisOk(<<"unit">>)
    [] OTHER -> VisErr("InvalidType")

\* Visitor::visit_bytes
visit_bytes(T, b) ==
  CASE T[1] = "Value" -> VisOk(<<"Bytes", b>>)
    [] T[1] = "ByteBuf" -> VisOk(<<"ByteBuf", b>>)
    [] T[1] = "IgnoredAny" -> VisOk(<<"unit">>)
    [] T[1] = "field" -> VisOk(<<"field", b>>)
    [] T[1] = "variant_ident" ->
         IF IndexOf(T[2], b) # 0 THEN VisOk(<<"variant", T[2][IndexOf(T[2], b)]>>)
         ELSE VisErr("UnknownVariant")
    [] OTHER -> VisErr("InvalidType")

\* The visitors that implement visit_seq, and those that implement visit_map.
HasVisitSeq(T) ==
  T[1] \in {"Value", "ByteBuf", "IgnoredAny", "Vec", "tuple", "tuple_struct", "struct"}
HasVisitMap(T) == T[1] \in {"Value", "IgnoredAny", "struct", "HashMap"}

\* A visit_seq that asks for elements until None (ValueVisitor::visit_seq,
\* serde's VecVisitor, ByteBufVisitor, IgnoredAny) or for a fixed number
\* (serde's tuple visitors, a derived struct's visit_seq).
Arity(T) == IF T[1] \in {"tuple", "tuple_struct", "struct"} THEN Len(T[2]) ELSE -1

ElemType(T, k) ==
  CASE T[1] = "Value" -> TyValue
    [] T[1] = "ByteBuf" -> TyU8
    [] T[1] = "IgnoredAny" -> TyIgnoredAny
    [] T[1] = "Vec" -> T[2]
    [] T[1] \in {"tuple", "tuple_struct"} -> T[2][k]
    [] T[1] = "struct" -> T[2][k][2]

\* What visit_seq returns from the elements it has collected.
SeqValue(T, acc) ==
  CASE T[1] = "Value" -> <<"List", acc>>
    [] T[1] = "ByteBuf" -> <<"ByteBuf", [k \in 1..Len(acc) |-> acc[k][2]]>>
    [] T[1] = "IgnoredAny" -> <<"unit">>
    [] T[1] = "Vec" -> <<"vec", acc>>
    [] T[1] = "tuple" -> <<"tuple", acc>>
    [] T[1] = "tuple_struct" -> <<"tuple_struct", acc>>
    [] T[1] = "struct" -> <<"struct", [k \in 1..Len(acc) |-> <<T[2][k][1], acc[k]>>]>>

\* visit_map: the type of the keys and, for a key, of its value.
KeyType(T) ==
  CASE T[1] = "Value" -> TyByteBuf
    [] T[1] = "IgnoredAny" -> TyIgnoredAny
    [] T[1] = "struct" -> <<"field", T[2]>>
    [] T[1] = "HashMap" -> T[2]

ValueType(T, key) ==
  CASE T[1] = "Value" -> TyValue
    [] T[1] = "IgnoredAny" -> TyIgnoredAny
    [] T[1] = "struct" ->
         IF IndexOf(T[2], key[2]) # 0 THEN T[2][IndexOf(T[2], key[2])][2]
         ELSE TyIgnoredAny
    [] T[1] = "HashMap" -> T[3]

\* An insert that keeps the value a key already has.
MapInsertIfAbsent(m, k, v) == [x \in (DOMAIN m) \cup {k} |-> IF x \in DOMAIN m THEN m[x] ELSE v]

\* HashMap::insert
MapInsert(m, k, v) == [x \in (DOMAIN m) \cup {k} |-> IF x = k THEN v ELSE m[x]]

\* The body of the visit_map loop after one entry was read
\* (ValueVisitor::visit_map: map.insert(k.into_vec(), v)).
MapAcc(T, acc, key, v) ==
  CASE T[1] = "Value" -> MapInsert(acc, key[2], v)
    [] T[1] = "IgnoredAny" -> acc
    [] T[1] = "struct" ->
         IF IndexOf(T[2], key[2]) # 0 THEN Append(acc, <<key[2], v>>) ELSE acc
    [] T[1] = "HashMap" -> MapInsert(acc, key[2], v)

\* What visit_map returns once next_key gave None.
MapValue(T, acc) ==
  CASE T[1] = "Value" -> VisOk(<<"Dict", acc>>)
    [] T[1] = "IgnoredAny" -> VisOk(<<"unit">>)
    [] T[1] = "struct" ->
         IF \A k \in 1..Len(T[2]) : IndexOf(acc, T[2][k][1]) # 0
         THEN VisOk(<<"struct",
                      [k \in 1..Len(T[2]) |-> <<T[2][k][1], acc[IndexOf(acc, T[2][k][1])][2]>>]>>)
         ELSE VisErr("MissingField")
    [] T[1] = "HashMap" -> VisOk(<<"HashMap", acc>>)

\* ------------------------------------------------------------------ state
VARIABLES
  orig,     \* the value handed to the Serializer (<<"unit">> when there is none)
  target,   \* the type T of from_bytes::<T>
  kind,     \* how the input was made: "fuzz", "exact", "prefix", "trailing"
  input,    \* the bytes handed to from_bytes
  pos,      \* Deserializer.reader: the number of bytes already read
  next,     \* Deserializer.next: the pushback slot
  stack,    \* the visitors and variant accessors waiting for a callee
  ctl,      \* the control point: <<"ser">>, <<"call", T>>, <<"next">>,
            \* <<"ret", v>>, <<"variant", v>>, <<"done">>
  status,   \* "run", "ok", "err" or "panic"
  result,   \* the value from_bytes returned
  errKind   \* the Error variant from_bytes returned

vars == <<orig, target, kind, input, pos, next, stack, ctl, status, result, errKind>>

\* A visitor inside visit_seq or visit_map over a BencodeAccess (len is the
\* access's len, -1 for None), or a variant accessor waiting for its payload.
Frame(k, T, acc, len, key) == [k |-> k, ty |-> T, acc |-> acc, len |-> len, key |-> key]

Top == stack[Len(stack)]
Pop == SubSeq(stack, 1, Len(stack) - 1)
SetTop(f) == [stack EXCEPT ![Len(stack)] = f]

Lexed(r) == pos' = r.pos /\ next' = r.nxt
Same == UNCHANGED <<orig, target, kind, input>>

\* An Err(kind) travelling up through every `?` to from_bytes.
Fail(e) ==
  /\ status' = "err" /\ errKind' = e /\ ctl' = <<"done">> /\ stack' = <<>>
  /\ UNCHANGED result

Panic ==
  /\ status' = "panic" /\ ctl' = <<"done">> /\ stack' = <<>>
  /\ UNCHANGED <<result, errKind>>

\* The lexer failed: its error or its panic ends the decode.
LexFailed(r) == IF r.st = "panic" THEN Panic ELSE Fail(r.err)

Return(v) == ctl' = <<"ret", v>> /\ UNCHANGED <<status, result, errKind>>
Call(T) == ctl' = <<"call", T>> /\ UNCHANGED <<status, result, errKind>>
Continue == ctl' = <<"next">> /\ UNCHANGED <<status, result, errKind>>

\* Returns the visitor's result, an Err when it has none.
Visited(r) == IF r.ok THEN Return(r.v) ELSE Fail(r.err)

\* Deserializer::deserialize_any, reached directly (Value) or through
\* forward_to_deserialize_any!.
deserialize_any ==
  /\ status = "run" /\ ctl[1] = "call" /\ ctl[2][1] \in ForwardedToAny
  /\ LET T == ctl[2]
         r == parse(input, pos, next)
     IN /\ Lexed(r)
        /\ IF r.st # "ok" THEN LexFailed(r)
           ELSE CASE r.tok[1] = "Int" ->
                       /\ Visited(visit_i64(T, r.tok[2]))
                       /\ IF visit_i64(T, r.tok[2]).ok THEN stack' = stack ELSE TRUE
                  [] r.tok[1] = "Bytes" ->
                       /\ Visited(visit_bytes(T, r.tok[2]))
                       /\ IF visit_bytes(T, r.tok[2]).ok THEN stack' = stack ELSE TRUE
                  [] r.tok[1] = "List" ->
                       IF HasVisitSeq(T)
                       THEN /\ stack' = Append(stack, Frame("seq", T, <<>>, -1, <<>>))
                            /\ Continue
                       ELSE Fail("InvalidType")
                  [] r.tok[1] = "Map" ->
                       IF HasVisitMap(T)
                       THEN /\ stack' = Append(stack, Frame("map", T, <<>>, -1, <<>>))
                            /\ Continue
                       ELSE Fail("InvalidType")
                  [] r.tok[1] = "End" -> Fail("EndOfStream")
  /\ Same

\* A parse_only_bytes that hands an integer back as its decimal text.
parse_only_bytes_display(tok) ==
  CASE tok[1] = "Bytes" -> VisOk(tok[2])
    [] tok[1] = "Int" -> VisOk(to_string(tok[2]))
    [] tok[1] \in {"List", "Map"} -> VisErr("InvalidType")
    [] tok[1] = "End" -> VisErr("EndOfStream")

\* Deserializer::parse_only_bytes, on the token parse returned.
parse_only_bytes(tok) ==
  CASE tok[1] = "Bytes" -> VisOk(tok[2])
    [] tok[1] \in {"Int", "List", "Map"} -> VisErr("InvalidType")
    [] tok[1] = "End" -> VisErr("EndOfStream")

\* deserialize_str / deserialize_string: parse_only_bytes, then the UTF-8
\* check, then visit_str / visit_string.
deserialize_string ==
  /\ status = "run" /\ ctl[1] = "call" /\ ctl[2][1] = "String"
  /\ LET r == parse(input, pos, next)
         b == parse_only_bytes(r.tok)
     IN /\ Lexed(r)
        /\ IF r.st # "ok" THEN LexFailed(r)
           ELSE IF ~b.ok THEN Fail(b.err)
           ELSE IF IsUtf8(b.v) THEN Return(<<"str", b.v>>) /\ stack' = stack
           ELSE Fail("InvalidValue")
  /\ Same

\* A next_element_seed that, on End, signals exhaustion and puts the End
\* back for the enclosing context.
next_element_seed_end_unread ==
  /\ status = "run" /\ ctl = <<"next">> /\ stack # <<>> /\ Top.k = "seq"
  /\ Arity(Top.ty) = -1 \/ Len(Top.acc) < Arity(Top.ty)
  /\ LET T == Top.ty
         r == parse(input, pos, next)
     IN IF r.st # "ok" THEN Lexed(r) /\ LexFailed(r)
        ELSE IF r.tok # TEnd
        THEN /\ pos' = r.pos /\ next' = r.tok
             /\ Call(ElemType(T, Len(Top.acc) + 1))
             /\ stack' = stack
        ELSE /\ pos' = r.pos /\ next' = TEnd
             /\ IF Arity(T) = -1 THEN Return(SeqValue(T, Top.acc)) /\ stack' = Pop
                ELSE Fail("InvalidLength")
  /\ Same

\* A next_element_seed that takes a token it cannot read for the end of the
\* sequence.
next_element_seed_lenient ==
  /\ status = "run" /\ ctl = <<"next">> /\ stack # <<>> /\ Top.k = "seq"
  /\ Arity(Top.ty) = -1 \/ Len(Top.acc) < Arity(Top.ty)
  /\ LET T == Top.ty
         r == parse(input, pos, next)
     IN IF r.st = "panic" THEN Lexed(r) /\ Panic
        ELSE IF r.st = "err" \/ r.tok = TEnd
        THEN /\ Lexed(r)
             /\ IF Arity(T) = -1 THEN Return(SeqValue(T, Top.acc)) /\ stack' = Pop
                ELSE Fail("InvalidLength")
        ELSE /\ pos' = r.pos /\ next' = r.tok
             /\ Call(ElemType(T, Len(Top.acc) + 1))
             /\ stack' = stack
  /\ Same

\* The visitor on top of the stack is inside visit_seq and asks for one more
\* element: the first half of SeqAccess::next_element_seed, up to the call of
\* seed.deserialize; on End the len countdown runs right away and the
\* visitor gets None (a visitor with a fixed arity answers invalid_length).
next_element_seed ==
  /\ status = "run" /\ ctl = <<"next">> /\ stack # <<>> /\ Top.k = "seq"
  /\ Arity(Top.ty) = -1 \/ Len(Top.acc) < Arity(Top.ty)
  /\ LET T == Top.ty
         r == parse(input, pos, next)
         r2 == parse(input, r.pos, r.nxt)
     IN IF r.st # "ok" THEN Lexed(r) /\ LexFailed(r)
        ELSE IF r.tok # TEnd
        THEN /\ pos' = r.pos /\ next' = r.tok
             /\ Call(ElemType(T, Len(Top.acc) + 1))
             /\ stack' = stack
        ELSE IF Top.len = 0 THEN Lexed(r) /\ Panic
        ELSE IF Top.len = 1
        THEN /\ Lexed(r2)
             /\ IF r2.st # "ok" THEN LexFailed(r2)
                ELSE IF r2.tok # TEnd THEN Fail("InvalidType")
                ELSE IF Arity(T) = -1 THEN Return(SeqValue(T, Top.acc)) /\ stack' = Pop
                ELSE Fail("InvalidLength")
        ELSE /\ Lexed(r)
             /\ IF Arity(T) = -1 THEN Return(SeqValue(T, Top.acc)) /\ stack' = Pop
                ELSE Fail("InvalidLength")
  /\ Same

\* seed.deserialize returned an element: the rest of next_element_seed (the
\* len countdown, and the check for End when it reaches 0), then the
\* visitor stores the element.
next_element_seed_end ==
  /\ status = "run" /\ ctl[1] = "ret" /\ stack # <<>> /\ Top.k = "seq"
  /\ LET r == parse(input, pos, next)
         acc == Append(Top.acc, ctl[2])
     IN IF Top.len = -1
        THEN /\ stack' = SetTop([Top EXCEPT !.acc = acc])
             /\ Continue /\ UNCHANGED <<pos, next>>
        ELSE IF Top.len = 0 THEN Panic /\ UNCHANGED <<pos, next>>
        ELSE IF Top.len = 1
        THEN /\ Lexed(r)
             /\ IF r.st # "ok" THEN LexFailed(r)
                ELSE IF r.tok # TEnd THEN Fail("InvalidType")
                ELSE stack' = SetTop([Top EXCEPT !.acc = acc, !.len = 0]) /\ Continue
        ELSE /\ stack' = SetTop([Top EXCEPT !.acc = acc, !.len = @ - 1])
             /\ Continue /\ UNCHANGED <<pos, next>>
  /\ Same

\* A visit_seq of fixed arity that reads on to the End of its list.
visit_seq_return_to_end ==
  /\ status = "run" /\ ctl = <<"next">> /\ stack # <<>> /\ Top.k = "seq"
  /\ Arity(Top.ty) # -1 /\ Len(Top.acc) >= Arity(Top.ty)
  /\ LET r == parse(input, pos, next)
     IN /\ Lexed(r)
        /\ IF r.st # "ok" THEN LexFailed(r)
           ELSE IF r.tok # TEnd THEN Fail("InvalidLength")
           ELSE Return(SeqValue(Top.ty, Top.acc)) /\ stack' = Pop
  /\ Same

\* A visit_seq of fixed arity has all its elements and returns (serde's
\* tuple visitors, a derived struct's visit_seq): it asks for nothing more.
visit_seq_return ==
  /\ status = "run" /\ ctl = <<"next">> /\ stack # <<>> /\ Top.k = "seq"
  /\ Arity(Top.ty) # -1 /\ Len(Top.acc) >= Arity(Top.ty)
  /\ Return(SeqValue(Top.ty, Top.acc))
  /\ stack' = Pop
  /\ UNCHANGED <<pos, next>>
  /\ Same

\* A next_key_seed that pushes the dict's End back into the slot.
next_key_seed_end_pushed ==
  /\ status = "run" /\ ctl = <<"next">> /\ stack # <<>> /\ Top.k = "map"
  /\ LET T == Top.ty
         r == parse(input, pos, next)
     IN IF r.st # "ok" THEN Lexed(r) /\ LexFailed(r)
        ELSE IF r.tok = TEnd
        THEN /\ pos' = r.pos /\ next' = r.tok
             /\ Visited(MapValue(T, Top.acc))
             /\ IF MapValue(T, Top.acc).ok THEN stack' = Pop ELSE TRUE
        ELSE /\ pos' = r.pos /\ next' = r.tok
             /\ Call(KeyType(T))
             /\ stack' = stack
  /\ Same

\* MapAccess::next_key_seed: End ends the map; any other token is pushed back
\* and the key is deserialized from it.
next_key_seed ==
  /\ status = "run" /\ ctl = <<"next">> /\ stack # <<>> /\ Top.k = "map"
  /\ LET T == Top.ty
         r == parse(input, pos, next)
     IN IF r.st # "ok" THEN Lexed(r) /\ LexFailed(r)
        ELSE IF r.tok = TEnd
        THEN /\ Lexed(r)
             /\ Visited(MapValue(T, Top.acc))
             /\ IF MapValue(T, Top.acc).ok THEN stack' = Pop ELSE TRUE
        ELSE /\ pos' = r.pos /\ next' = r.tok
             /\ Call(KeyType(T))
             /\ stack' = stack
  /\ Same

\* The key came back: MapAccess::next_value_seed for its value (a derived
\* struct answers duplicate_field for a field it already holds).
next_value_seed ==
  /\ status = "run" /\ ctl[1] = "ret" /\ stack # <<>> /\ Top.k = "map" /\ Top.key = <<>>
  /\ LET T == Top.ty
         key == ctl[2]
     IN IF T[1] = "struct" /\ IndexOf(Top.acc, key[2]) # 0
        THEN Fail("DuplicateField")
        ELSE /\ stack' = SetTop([Top EXCEPT !.key = <<key>>])
             /\ Call(ValueType(T, key))
  /\ UNCHANGED <<pos, next>>
  /\ Same

\* The value came back: the body of the visit_map loop.
visit_map_entry ==
  /\ status = "run" /\ ctl[1] = "ret" /\ stack # <<>> /\ Top.k = "map" /\ Top.key # <<>>
  /\ stack' = SetTop([Top EXCEPT !.acc = MapAcc(Top.ty, Top.acc, Top.key[1], ctl[2]),
                                 !.key = <<>>])
  /\ Continue
  /\ UNCHANGED <<pos, next>>
  /\ Same

\* The variant identifier read through deserialize_any: only a byte string
\* names a variant (the derived identifier visitor has no visit_i64,
\* visit_seq or visit_map).
VariantIdent(variants, tok) ==
  IF tok[1] = "Bytes" THEN visit_bytes(<<"variant_ident", variants>>, tok[2])
  ELSE IF tok[1] = "End" THEN VisErr("EndOfStream")
  ELSE VisErr("InvalidType")

\* visit_enum goes on with the VariantAccess method of the variant found.
Variant(r) ==
  IF r.ok THEN ctl' = r.v /\ stack' = stack /\ UNCHANGED <<status, result, errKind>>
  ELSE Fail(r.err)

\* deserialize_enum: visit_enum asks EnumAccess::variant_seed for the variant.
\* A byte string is pushed back and read again as the identifier; after a
\* Map the identifier is the next token (through deserialize_any).
variant_seed ==
  /\ status = "run" /\ ctl[1] = "call" /\ ctl[2][1] = "enum"
  /\ LET r == parse(input, pos, next)
         r2 == parse(input, r.pos, r.nxt)
     IN IF r.st # "ok" THEN Lexed(r) /\ LexFailed(r)
        ELSE IF r.tok[1] = "Bytes"
        THEN Lexed(r) /\ Variant(VariantIdent(ctl[2][2], r.tok))
        ELSE IF r.tok[1] = "Map"
        THEN /\ Lexed(r2)
             /\ IF r2.st # "ok" THEN LexFailed(r2)
                ELSE Variant(VariantIdent(ctl[2][2], r2.tok))
        ELSE Lexed(r) /\ Fail("InvalidValue")
  /\ Same

\* VariantAccess::unit_variant
unit_variant ==
  /\ status = "run" /\ ctl[1] = "variant" /\ ctl[2][2] = "unit"
  /\ Return(<<"unit_variant", ctl[2][1]>>)
  /\ UNCHANGED <<stack, pos, next>>
  /\ Same

\* VariantAccess::newtype_variant_seed, up to the call of seed.deserialize
newtype_variant_seed ==
  /\ status = "run" /\ ctl[1] = "variant" /\ ctl[2][2] = "newtype"
  /\ stack' = Append(stack, Frame("newtype_variant", ctl[2], <<>>, -1, <<>>))
  /\ Call(ctl[2][3])
  /\ UNCHANGED <<pos, next>>
  /\ Same

\* VariantAccess::tuple_variant, up to the call of visitor.visit_seq over a
\* BencodeAccess with len = Some(len)
tuple_variant ==
  /\ status = "run" /\ ctl[1] = "variant" /\ ctl[2][2] = "tuple"
  /\ LET r == parse(input, pos, next)
     IN /\ Lexed(r)
        /\ IF r.st # "ok" THEN LexFailed(r)
           ELSE IF r.tok # TList THEN Fail("InvalidType")
           ELSE /\ stack' = stack \o <<Frame("tuple_variant", ctl[2], <<>>, -1, <<>>),
                                       Frame("seq", <<"tuple", ctl[2][3]>>, <<>>,
                                             Len(ctl[2][3]), <<>>)>>
                /\ Continue
  /\ Same

\* VariantAccess::struct_variant, up to the call of deserialize_any
struct_variant ==
  /\ status = "run" /\ ctl[1] = "variant" /\ ctl[2][2] = "struct"
  /\ stack' = Append(stack, Frame("struct_variant", ctl[2], <<>>, -1, <<>>))
  /\ Call(<<"struct", ctl[2][3]>>)
  /\ UNCHANGED <<pos, next>>
  /\ Same

\* The variant's payload, as the enum's value.
VariantValue(f, v) ==
  CASE f.k = "newtype_variant" -> <<"newtype_variant", f.ty[1], v>>
    [] f.k = "tuple_variant" -> <<"tuple_variant", f.ty[1], v[2]>>
    [] f.k = "struct_variant" -> <<"struct_variant", f.ty[1], v[2]>>

\* A variant accessor that hands the payload back without reading the End
\* of the wrapping dict.
variant_end_unread ==
  /\ status = "run" /\ ctl[1] = "ret" /\ stack # <<>>
  /\ Top.k \in {"newtype_variant", "tuple_variant", "struct_variant"}
  /\ Return(VariantValue(Top, ctl[2])) /\ stack' = Pop
  /\ UNCHANGED <<pos, next>>
  /\ Same

\* A variant accessor that reads one token after the payload, whatever it is.
variant_end_any_token ==
  /\ status = "run" /\ ctl[1] = "ret" /\ stack # <<>>
  /\ Top.k \in {"newtype_variant", "tuple_variant", "struct_variant"}
  /\ LET r == parse(input, pos, next)
     IN /\ Lexed(r)
        /\ IF r.st # "ok" THEN LexFailed(r)
           ELSE Return(VariantValue(Top, ctl[2])) /\ stack' = Pop
  /\ Same

\* The tail of newtype_variant_seed, tuple_variant and struct_variant: the
\* token after the payload has to be the End of the wrapping dict.
variant_end ==
  /\ status = "run" /\ ctl[1] = "ret" /\ stack # <<>>
  /\ Top.k \in {"newtype_variant", "tuple_variant", "struct_variant"}
  /\ LET r == parse(input, pos, next)
     IN /\ Lexed(r)
        /\ IF r.st # "ok" THEN LexFailed(r)
           ELSE IF r.tok # TEnd THEN Fail("InvalidType")
           ELSE Return(VariantValue(Top, ctl[2])) /\ stack' = Pop
  /\ Same

\* A from_bytes that rejects input left over after the value.
from_bytes_return_strict ==
  /\ status = "run" /\ ctl[1] = "ret" /\ stack = <<>>
  /\ IF pos < Len(input) \/ next # NoToken
     THEN status' = "err" /\ errKind' = "InvalidValue" /\ UNCHANGED result
     ELSE status' = "ok" /\ result' = ctl[2] /\ UNCHANGED errKind
  /\ ctl' = <<"done">>
  /\ UNCHANGED <<stack, pos, next>>
  /\ Same

\* from_bytes returns what T::deserialize returned.
from_bytes_return ==
  /\ status = "run" /\ ctl[1] = "ret" /\ stack = <<>>
  /\ status' = "ok" /\ result' = ctl[2] /\ ctl' = <<"done">>
  /\ UNCHANGED <<stack, pos, next, errKind>>
  /\ Same

\* ------------------------------------------------------------ the callers
\* What starts a decode of `bytes`: Deserializer::new(b) and T::deserialize.
StartDecode(bytes, how) ==
  /\ input' = bytes /\ kind' = how
  /\ pos' = 0 /\ next' = NoToken /\ stack' = <<>>
  /\ UNCHANGED <<orig, target, result>>

\* to_bytes(orig), then from_bytes on exactly the bytes it returned.
encode_exact ==
  /\ status = "run" /\ ctl = <<"ser">>
  /\ LET r == to_bytes(orig)
     IN IF r.ok
        THEN StartDecode(r.bytes, "exact") /\ ctl' = <<"call", target>>
             /\ UNCHANGED <<status, errKind>>
        ELSE StartDecode(<<>>, "exact") /\ ctl' = <<"done">>
             /\ status' = "err" /\ errKind' = r.err

\* to_bytes(orig), then from_bytes on a proper prefix of the bytes.
encode_truncated ==
  /\ status = "run" /\ ctl = <<"ser">>
  /\ LET r == to_bytes(orig)
     IN /\ r.ok
        /\ \E n \in 0..(Len(r.bytes) - 1) :
             StartDecode(SubSeq(r.bytes, 1, n), "prefix")
        /\ ctl' = <<"call", target>>
        /\ UNCHANGED <<status, errKind>>

\* to_bytes(orig), then from_bytes on the bytes followed by extra bytes.
encode_trailing ==
  /\ status = "run" /\ ctl = <<"ser">>
  /\ LET r == to_bytes(orig)
     IN /\ r.ok
        /\ \E c \in {CH_i, CH_e, CH_l, CH_d, CH_colon, CH_0, CH_9, CH_minus, CH_x} :
             StartDecode(Append(r.bytes, c), "trailing")
        /\ ctl' = <<"call", target>>
        /\ UNCHANGED <<status, errKind>>

\* The bytes of one more token, put into an encoding.
ExtraTokens ==
  {serialize_i64(0), serialize_bytes(<<>>), serialize_bytes(<<CH_a>>), <<CH_l>>, <<CH_d>>}
InsertAt(bytes, n, extra) ==
  SubSeq(bytes, 1, n) \o extra \o SubSeq(bytes, n + 1, Len(bytes))

\* to_bytes of a newtype, tuple or struct variant, then from_bytes on the
\* bytes with one more token between the payload and the closing `e`.
encode_after_payload ==
  /\ status = "run" /\ ctl = <<"ser">>
  /\ orig[1] \in {"newtype_variant", "tuple_variant", "struct_variant"}
  /\ LET r == to_bytes(orig)
     IN /\ r.ok
        /\ \E x \in ExtraTokens :
             StartDecode(InsertAt(r.bytes, Len(r.bytes) - 1, x), "after_payload")
        /\ ctl' = <<"call", target>>
        /\ UNCHANGED <<status, errKind>>

\* to_bytes of a tuple variant, then from_bytes on the bytes with one more
\* element at the end of the variant's list.
encode_extra_element ==
  /\ status = "run" /\ ctl = <<"ser">>
  /\ orig[1] = "tuple_variant"
  /\ LET r == to_bytes(orig)
     IN /\ r.ok
        /\ \E x \in ExtraTokens \ {<<CH_l>>, <<CH_d>>} :
             StartDecode(InsertAt(r.bytes, Len(r.bytes) - 2, x), "extra_element")
        /\ ctl' = <<"call", target>>
        /\ UNCHANGED <<status, errKind>>

\* to_bytes(orig), with nothing decoded afterwards.
to_bytes_call ==
  /\ status = "run" /\ ctl = <<"ser">>
  /\ LET r == to_bytes(orig)
     IN /\ input' = r.bytes /\ kind' = "to_bytes"
        /\ status' = (IF r.ok THEN "ok" ELSE "err") /\ errKind' = r.err
  /\ ctl' = <<"done">>
  /\ UNCHANGED <<orig, target, pos, next, stack, result>>

\* to_string(orig): the same bytes, as a String.
to_string_call ==
  /\ status = "run" /\ ctl = <<"ser">>
  /\ LET r == to_string_utf8(orig)
     IN /\ input' = r.bytes /\ kind' = "to_string"
        /\ status' = (IF r.ok THEN "ok" ELSE "err") /\ errKind' = r.err
  /\ ctl' = <<"done">>
  /\ UNCHANGED <<orig, target, pos, next, stack, result>>

\* ------------------------------------------------------------- the inputs
SeqsUpTo(S, n) == UNION {[1..k -> S] : k \in 0..n}

\* Arbitrary input bytes, as a fuzzer hands them to from_bytes::<Value>.
FuzzAlphabet == {CH_i, CH_e, CH_l, CH_d, CH_colon, CH_0, CH_0 + 1, CH_9, CH_minus, CH_x}
FuzzInputs == SeqsUpTo(FuzzAlphabet, MaxInputLen)

\* Value trees as the Serializer is fed them: a Dict is its entries in the
\* HashMap's iteration order, keys unique.
IntValues == {I64_MIN, 0, I64_MAX}
ByteStrings == {<<>>, <<CH_e>>, <<CH_nonutf8, CH_a>>}
Keys == {<<>>, <<CH_b>>, <<CH_a, CH_b>>}
Leaves == {<<"Int", n>> : n \in IntValues} \cup {<<"Bytes", b>> : b \in ByteStrings}

DictFeeds(S, n) ==
  {d \in SeqsUpTo(Keys \X S, n) :
     \A j, k \in 1..Len(d) : j # k => d[j][1] # d[k][1]}

Containers(S) ==
  {<<"List", l>> : l \in SeqsUpTo(S, MaxElems)}
    \cup {<<"Dict", d>> : d \in DictFeeds(S, MaxElems)}

Inner ==
  {<<"Int", I64_MAX>>, <<"Bytes", <<>>>>, <<"List", <<>>>>, <<"Dict", <<>>>>,
   <<"List", <<<<"Int", I64_MIN>>>>>>,
   <<"Dict", <<<<<<CH_b>>, <<"Int", 0>>>>, <<<<CH_a, CH_b>>, <<"Bytes", <<CH_e>>>>>>>>>>}

ValueFeeds == Leaves \cup Containers(Leaves) \cup Containers(Inner)

\* Typed values with the type they are decoded into.
\* Vec<(i64, i64)> and struct { bar: Vec<(u8,)> } (tests.rs: ser_de_vec_of_tuples,
\* ser_de_field_vec_tuple).
PairInts == {-1, 12}
Pairs == {<<"tuple", <<<<"i64", a>>, <<"i64", b>>>>>> : a, b \in PairInts}
TyVecOfPairs == <<"Vec", <<"tuple", <<TyI64, TyI64>>>>>>
Singles == {<<"tuple", <<<<"u8", a>>>>>> : a \in {1, 3}}
NameBar == <<98, 97, 114>>
TyStructBar == <<"struct", <<<<NameBar, <<"Vec", <<"tuple", <<TyU8>>>>>>>>>>>>
VecTupleCases ==
  {<<<<"vec", l>>, TyVecOfPairs>> : l \in SeqsUpTo(Pairs, MaxElems)}
    \cup {<<<<"struct", <<<<NameBar, <<"vec", l>>>>>>>>, TyStructBar>> :
            l \in SeqsUpTo(Singles, MaxElems)}

\* (String, Mock, String) with enum Mock { A, B, N(i64), T(i64, i64),
\* S { b: i64, a: i64 } } (tests.rs: ser_de_variant_unit .. _struct).
TagA == <<65>>
TagB == <<66>>
TagN == <<78>>
TagT == <<84>>
TagS == <<83>>
NameA == <<CH_a>>
NameB == <<CH_b>>
NameAB == <<CH_a, CH_b>>
StrPre == <<"str", <<112, 114, 101>>>>
StrPost == <<"str", <<112, 111, 115, 116>>>>
MockFields == <<<<NameB, TyI64>>, <<NameA, TyI64>>>>
TyMock ==
  <<"enum", <<<<TagA, "unit", <<>>>>, <<TagB, "unit", <<>>>>, <<TagN, "newtype", TyI64>>,
              <<TagT, "tuple", <<TyI64, TyI64>>>>, <<TagS, "struct", MockFields>>>>>>
Mocks ==
  {<<"unit_variant", TagA>>, <<"unit_variant", TagB>>}
    \cup {<<"newtype_variant", TagN, <<"i64", a>>>> : a \in PairInts}
    \cup {<<"tuple_variant", TagT, <<<<"i64", a>>, <<"i64", b>>>>>> : a, b \in PairInts}
    \cup {<<"struct_variant", TagS, <<<<NameB, <<"i64", b>>>>, <<NameA, <<"i64", a>>>>>>>> :
            a, b \in PairInts}
TyPreMockPost == <<"tuple", <<TyString, TyMock, TyString>>>>
EnumCases == {<<<<"tuple", <<StrPre, m, StrPost>>>>, TyPreMockPost>> : m \in Mocks}

\* struct Fake { b: i64, ab: Inner, a: i64 } with struct Inner { b: i64, a: i64 }:
\* fields declared out of key order (tests.rs: serialize_lexical_sorted_keys).
TyInnerStruct == <<"struct", MockFields>>
TyFake == <<"struct", <<<<NameB, TyI64>>, <<NameAB, TyInnerStruct>>, <<NameA, TyI64>>>>>>
StructCases ==
  {<<<<"struct", <<<<NameB, <<"i64", x>>>>,
                   <<NameAB, <<"struct", <<<<NameB, <<"i64", y>>>>, <<NameA, <<"i64", x>>>>>>>>>>,
                   <<NameA, <<"i64", y>>>>>>>>, TyFake>> : x, y \in PairInts}

TypedCases ==
  VecTupleCases \cup EnumCases \cup StructCases
    \cup {<<v, TyValue>> : v \in Containers(Inner)}

\* Values that are only serialized.  Options and units as the values of
\* struct Fake { a: Option<_>, b: Option<_> } in both declaration orders and
\* of maps (tests.rs: struct_none_vals, serialize_none, serialize_some).
OptValues ==
  {<<"none">>, <<"unit">>, <<"some", <<"none">>>>, <<"some", <<"i64", 1>>>>,
   <<"some", <<"some", <<"i64", 12>>>>>>, <<"i64", 0>>, <<"str", <<>>>>,
   <<"struct", <<<<NameA, <<"none">>>>>>>>}
OptionCases ==
  {<<"none">>, <<"unit">>, <<"some", <<"none">>>>, <<"some", <<"i64", 1>>>>}
    \cup {<<"struct", <<<<NameA, x>>, <<NameB, y>>>>>> : x, y \in OptValues}
    \cup {<<"struct", <<<<NameB, y>>, <<NameA, x>>>>>> : x, y \in OptValues}
    \cup {<<"map", <<<<<<"str", NameAB>>, x>>, <<<<"Bytes", NameA>>, y>>>>>> :
            x, y \in OptValues}

\* Scalars (tests.rs: serialize_i64 .. serialize_bool): integers up to both
\* ends of i64, byte strings and strs up to a two-digit length, chars of
\* one to four UTF-8 bytes (U+0061, U+00E9, U+20AC, U+1F9D0), booleans.
LongStr == [k \in 1..12 |-> CH_x]
ScalarCases ==
  {<<"i64", n>> : n \in {I64_MIN, -1, 0, 9, 10, I64_MAX}}
    \cup {<<"Bytes", b>> : b \in ByteStrings}
    \cup {<<"str", b>> : b \in {<<>>, NameAB, SubSeq(LongStr, 1, 10), LongStr}}
    \cup {<<"char", c>> : c \in {CH_a, 233, 8364, 129488}}
    \cup {<<"bool", b>> : b \in BOOLEAN}

\* Enum values: the variants of Mock and variants whose payload is absent,
\* empty, nested or has a field that is None.
TagLong == <<TagA[1], TagB[1]>>
VariantSerCases ==
  Mocks
    \cup {<<"unit_variant", TagLong>>}
    \cup {<<"newtype_variant", TagLong, v>> :
            v \in {<<"none">>, <<"str", NameAB>>, <<"vec", <<<<"i64", 0>>>>>>,
                   <<"struct", <<<<NameB, <<"i64", 1>>>>, <<NameA, <<"none">>>>>>>>,
                   <<"newtype_variant", TagN, <<"i64", -1>>>>}}
    \cup {<<"tuple_variant", TagT, l>> :
            l \in {<<>>, <<<<"str", <<>>>>>>, <<<<"i64", 1>>, <<"none">>, <<"unit_variant", TagA>>>>}}
    \cup {<<"struct_variant", TagS, es>> :
            es \in {<<>>, <<<<NameB, <<"none">>>>, <<NameA, <<"i64", 0>>>>>>,
                    <<<<NameB, <<"vec", <<>>>>>>, <<NameAB, <<"str", NameB>>>>,
                      <<NameA, <<"some", <<"i64", 1>>>>>>>>}}

\* Maps fed one or two entries whose keys are of every kind a Serialize
\* implementation can hand to serialize_key.
StringKeys ==
  {<<"Bytes", b>> : b \in ByteStrings} \cup {<<"str", NameAB>>, <<"str", LongStr>>}
    \cup {<<"char", c>> : c \in {CH_a, 233, 8364}}
OtherKeys ==
  {<<"i64", 0>>, <<"u8", 1>>, <<"bool", TRUE>>, <<"f64">>, <<"unit">>, <<"none">>,
   <<"some", <<"str", NameA>>>>, <<"vec", <<>>>>, <<"vec", <<<<"str", NameA>>>>>>,
   <<"tuple", <<<<"str", NameA>>>>>>, <<"tuple_struct", <<<<"str", NameA>>>>>>,
   <<"map", <<>>>>, <<"struct", <<<<NameA, <<"i64", 1>>>>>>>>,
   <<"unit_variant", TagA>>, <<"newtype_variant", TagN, <<"str", NameA>>>>,
   <<"tuple_variant", TagT, <<>>>>, <<"struct_variant", TagS, <<>>>>}
MapKeyCases ==
  {<<"map", <<<<k, <<"i64", 1>>>>>>>> : k \in StringKeys \cup OtherKeys}
    \cup {<<"map", <<<<<<"str", NameB>>, <<"i64", 0>>>>, <<k, <<"i64", 1>>>>>>>> :
            k \in OtherKeys \cup {<<"char", 233>>, <<"str", NameA>>}}
    \cup {<<"map", <<<<k, <<"f64">>>>>>>> : k \in {<<"vec", <<>>>>, <<"i64", 0>>}}

\* Every u64 of the model's word size.
U64Cases == {<<"u64", v>> : v \in 0..USIZE_MAX}

SerCases == OptionCases \cup ScalarCases \cup VariantSerCases \cup MapKeyCases \cup U64Cases

\* Encodings decoded into a type other than the one they were made from.
\* One token (or one container) asked for as a String, an integer, a
\* ByteBuf or a Value; the byte strings are UTF-8 of one to four bytes per
\* character and sequences that are not UTF-8 (a lone continuation byte, a
\* cut sequence, an overlong form, a surrogate, a byte above F4).
Utf8Strings ==
  {<<>>, NameAB, <<195, 169>>, <<CH_a, 226, 130, 172>>, <<240, 159, 167, 144>>}
NonUtf8Strings ==
  {<<CH_nonutf8, CH_a>>, <<128>>, <<195>>, <<CH_a, 226, 130>>, <<192, 128>>,
   <<237, 160, 128>>, <<245, 128, 128, 128>>}
ScalarWires ==
  {<<"Int", n>> : n \in {I64_MIN, 0, 12, I64_MAX}}
    \cup {<<"Bytes", b>> : b \in Utf8Strings \cup NonUtf8Strings}
    \cup {<<"List", <<>>>>, <<"List", <<<<"Int", 0>>>>>>, <<"Dict", <<>>>>,
          <<"Dict", <<<<NameA, <<"Int", 0>>>>>>>>}
ScalarTargets == {TyString, TyI64, TyU8, TyByteBuf, TyValue}
ScalarWireCases == {<<w, T>> : w \in ScalarWires, T \in ScalarTargets}

\* The same mismatches below a container: Vec<String>, Vec<i64>, (String, i64)
\* and struct { a: String } / struct { a: i64 }.
TyVec(T) == <<"Vec", T>>
NestedWireCases ==
  {<<<<"List", <<<<"Bytes", NameAB>>, <<"Int", 1>>>>>>, TyVec(TyString)>>,
   <<<<"List", <<<<"Int", 1>>, <<"Bytes", NameAB>>>>>>, TyVec(TyI64)>>,
   <<<<"List", <<<<"Int", 1>>, <<"Bytes", NameAB>>>>>>, <<"tuple", <<TyString, TyI64>>>>>>,
   <<<<"List", <<<<"Bytes", NameAB>>, <<"Bytes", NameAB>>>>>>, <<"tuple", <<TyString, TyI64>>>>>>,
   <<<<"Dict", <<<<NameA, <<"Int", 1>>>>>>>>, <<"struct", <<<<NameA, TyString>>>>>>>>,
   <<<<"Dict", <<<<NameA, <<"Bytes", NameAB>>>>>>>>, <<"struct", <<<<NameA, TyI64>>>>>>>>}

\* A list of inner lists decoded as Vec<Node>, Vec<Item> and Vec<Point>
\* with struct Node(String, i64), struct Item { a: i64 } and
\* struct Point { b: i64, a: i64 } (tests.rs:
\* deserialize_to_list_with_tuple_structs_with_different_types,
\* deserialize_to_nested_list_*).
TyNode == <<"tuple_struct", <<TyString, TyI64>>>>
TyItem == <<"struct", <<<<NameA, TyI64>>>>>>
Nodes == {<<"List", <<<<"Bytes", s>>, <<"Int", n>>>>>> : s \in {NameA, NameAB}, n \in PairInts}
Items == {<<"List", <<<<"Int", n>>>>>> : n \in PairInts}
Points == {<<"List", <<<<"Int", n>>, <<"Int", m>>>>>> : n, m \in PairInts}
NestedListCases ==
  {<<<<"List", l>>, TyVec(TyNode)>> : l \in SeqsUpTo(Nodes, MaxElems)}
    \cup {<<<<"List", l>>, TyVec(TyItem)>> : l \in SeqsUpTo(Items, MaxElems)}
    \cup {<<<<"List", l>>, TyVec(TyInnerStruct)>> : l \in SeqsUpTo(Points, MaxElems)}

\* The variants of Mock decoded as Mock, and dictionaries with a variant's
\* tag as the first of two keys, a list of the wrong length or a value of
\* the wrong kind as the payload.
MockWireCases ==
  {<<m, TyMock>> : m \in Mocks}
    \cup {<<<<"Dict", <<<<t, v>>, <<<<90>>, <<"Int", 0>>>>>>>>, TyMock>> :
            t \in {TagA, TagN, TagT, TagS},
            v \in {<<"Int", 1>>, <<"List", <<<<"Int", 1>>, <<"Int", 2>>>>>>,
                   <<"Dict", <<<<NameA, <<"Int", 1>>>>, <<NameB, <<"Int", 2>>>>>>>>}}
    \cup {<<<<"Dict", <<<<TagT, <<"List", l>>>>>>>>, TyMock>> :
            l \in SeqsUpTo({<<"Int", 1>>}, 3)}

WireCases == ScalarWireCases \cup NestedWireCases \cup NestedListCases \cup MockWireCases

\* Bytes written by hand and decoded as a Value, as struct Item { a: i64 } or
\* as HashMap<String, i64>.  First, dicts of one entry whose key position
\* holds a token of each kind.
TyStrMap == <<"HashMap", TyString, TyI64>>
KeyTokens ==
  {serialize_bytes(<<>>), serialize_bytes(NameA), serialize_bytes(NameAB),
   serialize_i64(0), serialize_i64(-1),
   <<CH_l, CH_e>>, <<CH_l>> \o serialize_i64(1) \o <<CH_e>>,
   <<CH_l>> \o serialize_bytes(NameA) \o <<CH_e>>,
   <<CH_d, CH_e>>, <<CH_d>> \o serialize_bytes(NameA) \o serialize_i64(0) \o <<CH_e>>}
KeyDictInputs == {<<CH_d>> \o k \o serialize_i64(0) \o <<CH_e>> : k \in KeyTokens}
KeyDictCases == {<<b, T>> : b \in KeyDictInputs, T \in {TyValue, TyItem, TyStrMap}}

\* Dicts written entry by entry in any order, keys repeated or not.
RECURSIVE WriteEntries(_)
WriteEntries(es) ==
  IF es = <<>> THEN <<>>
  ELSE serialize_bytes(Head(es)[1]) \o serialize_i64(Head(es)[2]) \o WriteEntries(Tail(es))
WrittenDicts ==
  {<<CH_d>> \o WriteEntries(es) \o <<CH_e>> :
     es \in SeqsUpTo({NameA, NameB, NameAB} \X {0, 1}, MaxElems)}
WrittenDictCases == {<<b, TyValue>> : b \in WrittenDicts}

\* Integer tokens on the wire: 'i', a span of up to MaxSpan bytes that holds
\* no 'e', and the 'e' or the end of the input.
MaxSpan == 3

SpanBytes == {CH_plus, CH_minus, CH_0, CH_0 + 1, CH_9, CH_x, CH_nonutf8}

IntSpans == SeqsUpTo(SpanBytes, MaxSpan)

IntTokenInputs ==
  {<<CH_i>> \o sp \o <<CH_e>> : sp \in IntSpans} \cup {<<CH_i>> \o sp : sp \in IntSpans}

IntTokenCases == {<<b, TyValue>> : b \in IntTokenInputs}

RawCases == KeyDictCases \cup WrittenDictCases \cup IntTokenCases

\* ------------------------------------------------------------------ specs
InitDecoder ==
  /\ pos = 0 /\ next = NoToken /\ stack = <<>>
  /\ status = "run" /\ result = <<"unit">> /\ errKind = ""

\* from_bytes::<Value> on fuzzed bytes, or on what to_bytes made of a Value.
Init ==
  /\ InitDecoder
  /\ target = TyValue
  /\ \/ /\ orig = <<"unit">> /\ kind = "fuzz"
        /\ input \in FuzzInputs
        /\ ctl = <<"call", TyValue>>
     \/ /\ orig \in ValueFeeds /\ kind = "none"
        /\ input = <<>>
        /\ ctl = <<"ser">>

Next ==
  \/ encode_exact
  \/ encode_truncated
  \/ encode_trailing
  \/ deserialize_any
  \/ next_element_seed
  \/ next_element_seed_end
  \/ next_key_seed
  \/ next_value_seed
  \/ visit_map_entry
  \/ from_bytes_return

Spec == Init /\ [][Next]_vars

\* to_bytes of a typed value (or a Value), then from_bytes::<T> on the bytes.
InitTyped ==
  /\ InitDecoder
  /\ \E c \in TypedCases : orig = c[1] /\ target = c[2]
  /\ kind = "none" /\ input = <<>> /\ ctl = <<"ser">>

NextTyped ==
  \/ encode_exact
  \/ deserialize_any
  \/ deserialize_string
  \/ next_element_seed
  \/ next_element_seed_end
  \/ visit_seq_return
  \/ next_key_seed
  \/ next_value_seed
  \/ visit_map_entry
  \/ variant_seed
  \/ unit_variant
  \/ newtype_variant_seed
  \/ tuple_variant
  \/ struct_variant
  \/ variant_end
  \/ from_bytes_return

SpecTyped == InitTyped /\ [][NextTyped]_vars

\* to_bytes of a value, then from_bytes::<T> for a T the bytes were not made
\* from, or on the bytes with a token put in.
InitWire ==
  /\ InitDecoder
  /\ \E c \in WireCases : orig = c[1] /\ target = c[2]
  /\ kind = "none" /\ input = <<>> /\ ctl = <<"ser">>

NextWire ==
  \/ encode_exact
  \/ encode_after_payload
  \/ encode_extra_element
  \/ deserialize_any
  \/ deserialize_string
  \/ next_element_seed
  \/ next_element_seed_end
  \/ visit_seq_return
  \/ next_key_seed
  \/ next_value_seed
  \/ visit_map_entry
  \/ variant_seed
  \/ unit_variant
  \/ newtype_variant_seed
  \/ tuple_variant
  \/ struct_variant
  \/ variant_end
  \/ from_bytes_return

SpecWire == InitWire /\ [][NextWire]_vars


\* from_bytes is a sequential program: while it has not returned, its next
\* step is taken.
LiveAlphabet == {CH_i, CH_e, CH_l, CH_d, CH_colon, CH_0, CH_0 + 1, CH_9}

InitLive ==
  /\ InitDecoder
  /\ orig = <<"unit">> /\ target = TyValue /\ kind = "fuzz"
  /\ input \in SeqsUpTo(LiveAlphabet, MaxInputLen)
  /\ ctl = <<"call", TyValue>>

NextLive ==
  \/ deserialize_any
  \/ next_element_seed
  \/ next_element_seed_end
  \/ next_key_seed
  \/ next_value_seed
  \/ visit_map_entry
  \/ from_bytes_return

SpecLive == InitLive /\ [][NextLive]_vars /\ WF_vars(NextLive)

\* ------------------------------------------- a Deserializer over any Read
\* Deserializer::new takes any R: Read.  Read::read may fill less of the
\* buffer than is asked for while the source still has bytes: it returns some
\* count from 1 to the bytes asked for and left, here capped by the chunk the
\* source hands out in this call.
MaxChunk == 3

ReaderRead(inp, p, n, chunk) ==
  IF SliceRead(inp, p, n) < chunk THEN SliceRead(inp, p, n) ELSE chunk

\* Deserializer::parse_bytes over such a source.
parse_bytes_reader(inp, p, chunk) ==
  LET l == parse_bytes_len(inp, p)
  IN IF l.st # "ok" THEN l
     ELSE LET len == l.tok[2]
              actual_len == ReaderRead(inp, l.pos, len, chunk)
          IN IF len > ISIZE_MAX THEN LexPanic(l.pos, NoToken)
             ELSE IF len # actual_len THEN LexErr("EndOfStream", l.pos + actual_len, NoToken)
             ELSE LexOk(TBytes(SubSeq(inp, l.pos + 1, l.pos + len)), l.pos + len, NoToken)

\* Deserializer::parse over such a source, the slot empty.  The reads of one
\* byte return 1 while a byte is left.
parse_reader(inp, p, chunk) ==
  IF IsDigit(IF p < Len(inp) THEN inp[p + 1] ELSE 0)
  THEN parse_bytes_reader(inp, p + 1, chunk)
  ELSE parse(inp, p, NoToken)

ReadAlphabet == {CH_i, CH_e, CH_colon, CH_0 + 1, CH_0 + 2, CH_a}

ReadInputs == SeqsUpTo(ReadAlphabet, MaxInputLen)

\* One call of parse on the Deserializer; result holds the last token.
reader_parse ==
  /\ status = "run" /\ ctl = <<"lex">>
  /\ \E chunk \in 1..MaxChunk :
       LET r == parse_reader(input, pos, chunk)
       IN /\ Lexed(r)
          /\ IF r.st = "ok"
             THEN result' = r.tok /\ UNCHANGED <<status, errKind, ctl, stack>>
             ELSE LexFailed(r)
  /\ Same

InitRead ==
  /\ InitDecoder
  /\ orig = <<"unit">> /\ target = <<"unit">> /\ kind = "reader"
  /\ input \in ReadInputs /\ ctl = <<"lex">>

NextRead == reader_parse

SpecRead == InitRead /\ [][NextRead]_vars

\* ------------------------------------------------ SerializeMap, call by call
\* A Serialize impl drives one SerializeMap: stack holds the SerializeMap
\* (entries, cur_key), input the bytes of the parent Serializer's buffer, orig
\* the calls made so far.  A call that returns Err ends the run (the impl's `?`).
MaxCalls == 4

MapCallKeys == {<<"str", NameA>>, <<"str", NameB>>, <<"i64", 0>>}

MapCallValues == {<<"i64", 0>>, <<"i64", 1>>, <<"none">>}

TheMap == stack[1]

Called(c) == orig' = <<"calls", Append(orig[2], c)>>

MapErr(e) ==
  /\ status' = "err" /\ errKind' = e /\ ctl' = <<"done">>
  /\ UNCHANGED <<stack, input>>

MapOk(m) ==
  /\ stack' = <<m>>
  /\ UNCHANGED <<status, errKind, ctl, input>>

\* A serialize_key that replaces the key that is pending.
serialize_key_overwrite ==
  /\ status = "run" /\ ctl = <<"map">> /\ Len(orig[2]) < MaxCalls
  /\ \E key \in MapCallKeys :
       /\ Called(<<"key", key>>)
       /\ LET k == string_serialize(key)
          IN IF ~k.ok THEN MapErr(k.err)
             ELSE MapOk([TheMap EXCEPT !.cur_key = <<k.bytes>>])
  /\ UNCHANGED <<target, kind, pos, next, result>>

\* SerializeMap::serialize_key
serialize_key ==
  /\ status = "run" /\ ctl = <<"map">> /\ Len(orig[2]) < MaxCalls
  /\ \E key \in MapCallKeys :
       /\ Called(<<"key", key>>)
       /\ IF TheMap.cur_key # <<>> THEN MapErr("InvalidValue")
          ELSE LET k == string_serialize(key)
               IN IF ~k.ok THEN MapErr(k.err)
                  ELSE MapOk([TheMap EXCEPT !.cur_key = <<k.bytes>>])
  /\ UNCHANGED <<target, kind, pos, next, result>>

\* SerializeMap::serialize_value
serialize_value ==
  /\ status = "run" /\ ctl = <<"map">> /\ Len(orig[2]) < MaxCalls
  /\ \E value \in MapCallValues :
       /\ Called(<<"value", value>>)
       /\ IF TheMap.cur_key = <<>> THEN MapErr("InvalidValue")
          ELSE LET key == TheMap.cur_key[1]
                   taken == [TheMap EXCEPT !.cur_key = <<>>]
                   v == Serialize(value)
               IN IF ~v.ok
                  THEN /\ status' = "err" /\ errKind' = v.err /\ ctl' = <<"done">>
                       /\ stack' = <<taken>> /\ UNCHANGED input
                  ELSE MapOk(PushEntry(taken, key, v.bytes))
  /\ UNCHANGED <<target, kind, pos, next, result>>

\* SerializeMap::serialize_entry
serialize_entry ==
  /\ status = "run" /\ ctl = <<"map">> /\ Len(orig[2]) < MaxCalls
  /\ \E key \in MapCallKeys, value \in MapCallValues :
       /\ Called(<<"entry", key, value>>)
       /\ IF TheMap.cur_key # <<>> THEN MapErr("InvalidValue")
          ELSE LET k == string_serialize(key)
                   v == Serialize(value)
               IN IF ~k.ok THEN MapErr(k.err)
                  ELSE IF ~v.ok THEN MapErr(v.err)
                  ELSE MapOk(PushEntry(TheMap, k.bytes, v.bytes))
  /\ UNCHANGED <<target, kind, pos, next, result>>

\* SerializeMap::end: end_map, which pushes onto the parent's buffer.
SerializeMap_end ==
  /\ status = "run" /\ ctl = <<"map">>
  /\ Called(<<"end">>)
  /\ LET r == end_map(TheMap)
     IN IF ~r.ok THEN MapErr(r.err)
        ELSE /\ input' = input \o r.bytes
             /\ stack' = <<[TheMap EXCEPT !.entries = <<>>]>>
             /\ status' = "ok" /\ ctl' = <<"done">> /\ UNCHANGED errKind
  /\ UNCHANGED <<target, kind, pos, next, result>>

\* serialize_map: a new SerializeMap over a parent buffer that is empty or
\* holds an open list.
InitMap ==
  /\ pos = 0 /\ next = NoToken /\ status = "run" /\ result = <<"unit">> /\ errKind = ""
  /\ stack = <<NewMap>> /\ input \in {<<>>, <<CH_l>>}
  /\ orig = <<"calls", <<>>>> /\ target = <<"unit">> /\ kind = "map" /\ ctl = <<"map">>

NextMap ==
  \/ serialize_key
  \/ serialize_value
  \/ serialize_entry
  \/ SerializeMap_end

SpecMap == InitMap /\ [][NextMap]_vars

\* from_bytes::<T> on bytes written by hand.
InitRaw ==
  /\ InitDecoder
  /\ orig = <<"unit">> /\ kind = "raw"
  /\ \E c \in RawCases : input = c[1] /\ target = c[2] /\ ctl = <<"call", c[2]>>

NextRaw ==
  \/ deserialize_any
  \/ deserialize_string
  \/ next_element_seed
  \/ next_element_seed_end
  \/ next_key_seed
  \/ next_value_seed
  \/ visit_map_entry
  \/ from_bytes_return

SpecRaw == InitRaw /\ [][NextRaw]_vars

\* ------------------------------------------------------------- properties
Range(f) == {f[x] : x \in DOMAIN f}

\* The Value a feed stands for: Value::Dict holds a HashMap, which has no
\* order; a feed lists its entries in the order the HashMap iterates them.
RECURSIVE Sem(_)
Sem(x) ==
  CASE x[1] = "List" -> <<"List", [k \in 1..Len(x[2]) |-> Sem(x[2][k])]>>
    [] x[1] = "Dict" ->
         <<"Dict", [key \in {e[1] : e \in Range(x[2])} |->
                      Sem((CHOOSE e \in Range(x[2]) : e[1] = key)[2])]>>
    [] OTHER -> x

\* PartialEq of two decoded or fed values.
RECURSIVE Eq(_, _)
Eq(a, b) ==
  IF a[1] # b[1] THEN FALSE
  ELSE CASE a[1] \in {"unit", "none"} -> TRUE
         [] a[1] \in {"Int", "i64", "u8", "Bytes", "str", "ByteBuf", "unit_variant"} ->
              a[2] = b[2]
         [] a[1] \in {"List", "vec", "tuple", "tuple_struct"} ->
              /\ Len(a[2]) = Len(b[2])
              /\ \A k \in 1..Len(a[2]) : Eq(a[2][k], b[2][k])
         [] a[1] = "Dict" ->
              /\ DOMAIN a[2] = DOMAIN b[2]
              /\ \A k \in DOMAIN a[2] : Eq(a[2][k], b[2][k])
         [] a[1] = "struct" ->
              /\ Len(a[2]) = Len(b[2])
              /\ \A k \in 1..Len(a[2]) :
                   a[2][k][1] = b[2][k][1] /\ Eq(a[2][k][2], b[2][k][2])
         [] a[1] = "newtype_variant" -> a[2] = b[2] /\ Eq(a[3], b[3])
         [] a[1] = "tuple_variant" ->
              /\ a[2] = b[2] /\ Len(a[3]) = Len(b[3])
              /\ \A k \in 1..Len(a[3]) : Eq(a[3][k], b[3][k])
         [] a[1] = "struct_variant" ->
              /\ a[2] = b[2] /\ Len(a[3]) = Len(b[3])
              /\ \A k \in 1..Len(a[3]) :
                   a[3][k][1] = b[3][k][1] /\ Eq(a[3][k][2], b[3][k][2])
         [] a[1] = "some" -> Eq(a[2], b[2])
         [] OTHER -> FALSE

Done == ctl = <<"done">>

\* C1: every Value tree (integers, byte strings, lists and dictionaries,
\* the empty ones included), serialized and then decoded with
\* from_bytes::<Value>, decodes successfully to a Value equal to it.
RoundTripValue ==
  (Done /\ kind = "exact") => (status = "ok" /\ Eq(result, Sem(orig)))

\* A dictionary fed out of key order, holding a nested container and a
\* negative integer, has come back.
RoundTripValueSeen ==
  /\ Done /\ kind = "exact" /\ status = "ok"
  /\ orig[1] = "Dict" /\ Len(orig[2]) = 2
  /\ BytesLess(orig[2][2][1], orig[2][1][1])
  /\ orig[2][1][2] = <<"List", <<<<"Int", I64_MIN>>>>>>
  /\ orig[2][2][2] = <<"Dict", <<>>>>
  /\ Eq(result, Sem(orig))

\* The tokens of a byte sequence, each with the span it was read from.
RECURSIVE Tokens(_, _)
Tokens(inp, p) ==
  LET r == parse(inp, p, NoToken)
  IN IF r.st # "ok" THEN <<>>
     ELSE <<[tok |-> r.tok, from |-> p, to |-> r.pos]>> \o Tokens(inp, r.pos)

\* Walks the tokens with the stack of open containers; each open dictionary
\* remembers whether a key comes next and the last key it saw.
Open(isDict) == [dict |-> isDict, atKey |-> isDict, last |-> <<>>]
AfterValue(ctx) ==
  IF ctx # <<>> /\ ctx[Len(ctx)].dict
  THEN [ctx EXCEPT ![Len(ctx)].atKey = TRUE]
  ELSE ctx

RECURSIVE KeysInOrder(_, _, _, _)
KeysInOrder(toks, k, ctx, strict) ==
  IF k > Len(toks) THEN TRUE
  ELSE LET t == toks[k].tok
           n == Len(ctx)
           rest == SubSeq(ctx, 1, n - 1)
       IN IF n > 0 /\ ctx[n].dict /\ ctx[n].atKey
          THEN IF t[1] = "End" THEN KeysInOrder(toks, k + 1, AfterValue(rest), strict)
               ELSE IF t[1] # "Bytes" THEN FALSE
               ELSE /\ \/ ctx[n].last = <<>>
                       \/ IF strict THEN BytesLess(ctx[n].last[1], t[2])
                          ELSE ~BytesLess(t[2], ctx[n].last[1])
                    /\ KeysInOrder(toks, k + 1,
                                   [ctx EXCEPT ![n].atKey = FALSE, ![n].last = <<t[2]>>],
                                   strict)
          ELSE IF t[1] = "List" THEN KeysInOrder(toks, k + 1, Append(ctx, Open(FALSE)), strict)
          ELSE IF t[1] = "Map" THEN KeysInOrder(toks, k + 1, Append(ctx, Open(TRUE)), strict)
          ELSE IF t[1] = "End"
               THEN n > 0 /\ ~ctx[n].dict
                    /\ KeysInOrder(toks, k + 1, AfterValue(rest), strict)
          ELSE KeysInOrder(toks, k + 1, AfterValue(ctx), strict)

KeysAscending(bytes) == KeysInOrder(Tokens(bytes, 0), 1, <<>>, FALSE)

\* C2: in the bytes the Serializer returns, the keys of every dictionary
\* (from serialize_map, serialize_struct or a struct variant, at any depth)
\* appear in ascending order of their raw key bytes.
DictKeysSorted ==
  (kind = "exact" /\ ctl # <<"ser">> /\ input # <<>>) => KeysAscending(input)

\* struct Fake { b, ab, a } has been written as d 1:a .. 2:ab .. 1:b .. e:
\* raw order, where the order of the tokens would put 1:b before 2:ab.
DictKeysSortedSeen ==
  /\ Done /\ kind = "exact" /\ status = "ok" /\ target = TyFake
  /\ SubSeq(input, 1, 4) = <<CH_d>> \o serialize_bytes(NameA)
  /\ \E k \in 1..(Len(input) - 3) :
       /\ SubSeq(input, k, k + 3) = serialize_bytes(NameAB)
       /\ \E j \in (k + 4)..(Len(input) - 2) :
            SubSeq(input, j, j + 2) = serialize_bytes(NameB)
  /\ KeysAscending(input)

\* Every way to feed the same value: a HashMap may iterate in any order, a
\* struct may declare its fields in any order.
Permute(s, p) == [k \in 1..Len(s) |-> s[p[k]]]

RECURSIVE Reorderings(_)
RECURSIVE ReorderSeq(_)
RECURSIVE ReorderEntries(_)
ReorderSeq(s) ==
  IF s = <<>> THEN {<<>>}
  ELSE {<<h>> \o t : h \in Reorderings(Head(s)), t \in ReorderSeq(Tail(s))}

ReorderEntries(es) ==
  IF es = <<>> THEN {<<>>}
  ELSE {<<<<Head(es)[1], h>>>> \o t :
          h \in Reorderings(Head(es)[2]), t \in ReorderEntries(Tail(es))}

AnyOrder(es) ==
  UNION {ReorderEntries(Permute(es, p)) : p \in Permutations(1..Len(es))}

Reorderings(x) ==
  CASE x[1] \in {"List", "vec", "tuple", "tuple_struct"} ->
         {<<x[1], l>> : l \in ReorderSeq(x[2])}
    [] x[1] \in {"Dict", "struct", "map"} -> {<<x[1], es>> : es \in AnyOrder(x[2])}
    [] x[1] = "newtype_variant" -> {<<x[1], x[2], y>> : y \in Reorderings(x[3])}
    [] x[1] = "tuple_variant" -> {<<x[1], x[2], l>> : l \in ReorderSeq(x[3])}
    [] x[1] = "struct_variant" -> {<<x[1], x[2], es>> : es \in AnyOrder(x[3])}
    [] x[1] = "some" -> {<<x[1], y>> : y \in Reorderings(x[2])}
    [] OTHER -> {x}

\* C3: two maps with the same set of key/value pairs, fed to the Serializer
\* in different orders (or fields declared in different orders), serialize
\* to the same bytes.
FeedOrderIrrelevant ==
  (kind = "exact" /\ ctl # <<"ser">>) =>
     \A y \in Reorderings(orig) : to_bytes(y) = SerOk(input)

\* A two-entry dictionary holding a two-entry dictionary: four feed orders.
FeedOrderIrrelevantSeen ==
  /\ Done /\ kind = "exact" /\ status = "ok"
  /\ orig[1] = "Dict"
  /\ Cardinality(Reorderings(orig)) >= 4
  /\ \A y \in Reorderings(orig) : to_bytes(y) = SerOk(input)

\* C4: a Vec of n-tuples (also as a struct field), serialized and decoded
\* back as the same type, gives the value that was serialized.
RoundTripVecOfTuples ==
  (Done /\ kind = "exact" /\ target \in {TyVecOfPairs, TyStructBar}) =>
     (status = "ok" /\ Eq(result, orig))

\* C5: a 3-tuple ("pre", variant, "post"), the variant a unit, newtype,
\* tuple or struct variant, serialized and decoded back as the same type,
\* gives the value that was serialized.
RoundTripVariantInTuple ==
  (Done /\ kind = "exact" /\ target = TyPreMockPost) =>
     (status = "ok" /\ Eq(result, orig))

\* A struct variant between "pre" and "post" has come back.
RoundTripVariantInTupleSeen ==
  /\ Done /\ kind = "exact" /\ status = "ok" /\ target = TyPreMockPost
  /\ orig[2][2][1] = "struct_variant"
  /\ Eq(result[2][3], StrPost)
  /\ Eq(result, orig)

\* The index of the token that completes the first value of toks, 0 when
\* the tokens end (or an End comes) before that.
RECURSIVE ValueEnd(_, _, _)
ValueEnd(toks, k, depth) ==
  IF k > Len(toks) THEN 0
  ELSE LET t == toks[k].tok
       IN IF t[1] \in {"List", "Map"} THEN ValueEnd(toks, k + 1, depth + 1)
          ELSE IF t[1] = "End"
               THEN IF depth = 0 THEN 0
                    ELSE IF depth = 1 THEN k
                    ELSE ValueEnd(toks, k + 1, depth - 1)
          ELSE IF depth = 0 THEN k
          ELSE ValueEnd(toks, k + 1, depth)

\* bytes is one complete value and nothing else.
Complete(bytes) ==
  LET toks == Tokens(bytes, 0)
      k == ValueEnd(toks, 1, 0)
  IN k # 0 /\ toks[k].to = Len(bytes)

\* C6: from_bytes::<Value> on a prefix of the encoding of a Value returns
\* Ok only if the prefix is itself a complete value (which only the whole
\* encoding is), and otherwise fails with EndOfStream or InvalidValue: no
\* other error, no panic.
TruncationSafe ==
  (Done /\ kind \in {"exact", "prefix"}) =>
     \/ status = "ok" /\ kind = "exact" /\ Complete(input)
     \/ status = "err" /\ errKind \in {"EndOfStream", "InvalidValue"}

\* A dictionary cut inside the bytes of a byte string has been refused:
\* the length is there, the bytes are not.
TruncationSafeSeen ==
  /\ Done /\ kind = "prefix" /\ status = "err" /\ errKind = "EndOfStream"
  /\ orig[1] = "Dict" /\ Len(input) >= 4
  /\ input[Len(input)] = CH_nonutf8
  /\ input[Len(input) - 1] = CH_colon
  /\ ~Complete(input)

\* C7: a byte-string token <digits>:<bytes> whose digits do not parse as a
\* length fails with InvalidValue; whose declared length exceeds the bytes
\* that remain fails with EndOfStream, for every declared length and
\* without a panic; otherwise it yields exactly the declared number of bytes.
ByteStringToken ==
  (Done /\ kind = "fuzz" /\ input # <<>> /\ IsDigit(input[1])
        /\ ScanTo(input, 0, CH_colon) # 0) =>
     LET j == ScanTo(input, 0, CH_colon)
         len == parse_usize(SubSeq(input, 1, j - 1))
     IN IF ~len.ok THEN status = "err" /\ errKind = "InvalidValue"
        ELSE IF len.v > Len(input) - j THEN status = "err" /\ errKind = "EndOfStream"
        ELSE /\ status = "ok" /\ result[1] = "Bytes"
             /\ result[2] = SubSeq(input, j + 1, j + len.v)

\* C8: from_bytes::<Value> returns Ok or a typed Err for every finite byte
\* sequence; it never panics.
NeverPanics == status # "panic"

\* C9: input left after the first complete value is ignored: from_bytes
\* returns Ok with that first value.
TrailingIgnored ==
  (Done /\ kind = "trailing") => (status = "ok" /\ Eq(result, Sem(orig)))

\* An integer followed by a stray `d`, as in "i666ed", has decoded to the
\* integer, the `d` unread.
TrailingIgnoredSeen ==
  /\ Done /\ kind = "trailing" /\ status = "ok"
  /\ orig = <<"Int", I64_MIN>>
  /\ input[Len(input)] = CH_d /\ pos = Len(input) - 1
  /\ result = orig

\* Canonical input: one complete value, the keys of every dictionary
\* strictly ascending, every integer and length in the decimal form the
\* Serializer writes.
Canonical(bytes) ==
  LET toks == Tokens(bytes, 0)
  IN /\ Complete(bytes)
     /\ KeysInOrder(toks, 1, <<>>, TRUE)
     /\ \A k \in 1..Len(toks) :
          LET t == toks[k].tok
              span == SubSeq(bytes, toks[k].from + 1, toks[k].to)
          IN /\ t[1] = "Int" => span = serialize_i64(t[2])
             /\ t[1] = "Bytes" => span = serialize_bytes(t[2])

\* Every order in which a decoded Value may hand its entries to the
\* Serializer (Value::Dict iterates a HashMap).
RECURSIVE FeedsOf(_)
RECURSIVE FeedSeq(_)
RECURSIVE FeedEntries(_, _)
FeedSeq(s) ==
  IF s = <<>> THEN {<<>>}
  ELSE {<<h>> \o t : h \in FeedsOf(Head(s)), t \in FeedSeq(Tail(s))}

FeedEntries(keys, m) ==
  IF keys = <<>> THEN {<<>>}
  ELSE {<<<<Head(keys), h>>>> \o t :
          h \in FeedsOf(m[Head(keys)]), t \in FeedEntries(Tail(keys), m)}

KeyOrders(K) ==
  {s \in [1..Cardinality(K) -> K] : \A i, j \in DOMAIN s : i # j => s[i] # s[j]}

FeedsOf(v) ==
  CASE v[1] = "List" -> {<<"List", l>> : l \in FeedSeq(v[2])}
    [] v[1] = "Dict" ->
         {<<"Dict", es>> : es \in UNION {FeedEntries(s, v[2]) : s \in KeyOrders(DOMAIN v[2])}}
    [] OTHER -> {v}

\* C10: for a canonical encoding s, from_str::<Value>(s) followed by
\* to_string gives back a string equal to s.
DecodeEncodeIdentity ==
  (Done /\ kind \in {"exact", "fuzz"} /\ IsUtf8(input) /\ Canonical(input)) =>
     /\ status = "ok"
     /\ \A f \in FeedsOf(result) : to_string_utf8(f) = SerOk(input)

\* A canonical dictionary of two entries, one a list, has been decoded and
\* written again from either iteration order.
DecodeEncodeIdentitySeen ==
  /\ Done /\ kind = "exact" /\ status = "ok"
  /\ IsUtf8(input) /\ Canonical(input)
  /\ result[1] = "Dict" /\ Cardinality(DOMAIN result[2]) = 2
  /\ \E k \in DOMAIN result[2] : result[2][k][1] = "List"
  /\ Cardinality(FeedsOf(result)) >= 2
  /\ \A f \in FeedsOf(result) : to_string_utf8(f) = SerOk(input)

\* to_bytes and to_string of values that are not decoded again.
InitSer ==
  /\ InitDecoder
  /\ orig \in SerCases /\ target = <<"unit">>
  /\ kind = "none" /\ input = <<>> /\ ctl = <<"ser">>

NextSer ==
  \/ to_bytes_call
  \/ to_string_call

SpecSer == InitSer /\ [][NextSer]_vars

\* The entries of the dictionary that bytes holds, in wire order: each key
\* with the bytes of its value.
RECURSIVE EntriesFrom(_, _, _)
EntriesFrom(bytes, toks, k) ==
  IF k > Len(toks) \/ toks[k].tok[1] # "Bytes" THEN <<>>
  ELSE LET v == ValueEnd(SubSeq(toks, k + 1, Len(toks)), 1, 0)
       IN IF v = 0 THEN <<>>
          ELSE <<<<toks[k].tok[2], SubSeq(bytes, toks[k + 1].from + 1, toks[k + v].to)>>>>
                 \o EntriesFrom(bytes, toks, k + v + 1)

TopEntries(bytes) == EntriesFrom(bytes, Tokens(bytes, 0), 2)

\* A value that stands for "absent": None, (), or Some of one.
RECURSIVE Absent(_)
Absent(v) ==
  \/ v[1] \in {"none", "unit"}
  \/ v[1] = "some" /\ Absent(v[2])

\* The bytes of the k-th key of a struct (a field name) or of a map.
KeyBytesOf(x, k) == IF x[1] = "map" THEN x[2][k][1][2] ELSE x[2][k][1]

\* C11: None serializes to zero bytes; a map entry or struct field whose
\* value encoded to zero bytes leaves neither key nor value in the output,
\* and every other entry is still there.
AbsentVanishes ==
  (Done /\ kind \in {"to_bytes", "to_string"} /\ orig \in OptionCases) =>
     /\ status = "ok"
     /\ Absent(orig) => input = <<>>
     /\ orig[1] \in {"struct", "map"} =>
          /\ Complete(input) /\ input[1] = CH_d
          /\ Len(TopEntries(input)) =
               Cardinality({k \in 1..Len(orig[2]) : ~Absent(orig[2][k][2])})
          /\ \A k \in 1..Len(orig[2]) :
               ~Absent(orig[2][k][2]) =>
                  <<KeyBytesOf(orig, k), to_bytes(orig[2][k][2]).bytes>>
                    \in Range(TopEntries(input))
          /\ \A e \in Range(TopEntries(input)) : e[2] # <<>>

\* Fake { a: None, b: Some(1) } has been written as d1:bi1ee.
AbsentVanishesSeen ==
  /\ Done /\ kind = "to_string" /\ status = "ok"
  /\ orig = <<"struct", <<<<NameA, <<"none">>>>, <<NameB, <<"some", <<"i64", 1>>>>>>>>>>
  /\ input = <<CH_d>> \o serialize_bytes(NameB) \o serialize_i64(1) \o <<CH_e>>

\* d is the decimal numeral of n >= 0: digits only, no leading zero.
RECURSIVE DecVal(_)
DecVal(d) ==
  IF d = <<>> THEN 0
  ELSE DecVal(SubSeq(d, 1, Len(d) - 1)) * 10 + (d[Len(d)] - CH_0)

Decimal(d, n) ==
  /\ d # <<>> /\ \A k \in 1..Len(d) : IsDigit(d[k])
  /\ Len(d) > 1 => d[1] # CH_0
  /\ DecVal(d) = n

IsIntToken(b, n) ==
  /\ Len(b) >= 3 /\ b[1] = CH_i /\ b[Len(b)] = CH_e
  /\ LET body == SubSeq(b, 2, Len(b) - 1)
     IN IF n < 0 THEN body[1] = CH_minus /\ Decimal(Tail(body), -n)
        ELSE Decimal(body, n)

IsBytesToken(b, raw) ==
  LET j == Len(b) - Len(raw)
  IN /\ j >= 2 /\ b[j] = CH_colon
     /\ Decimal(SubSeq(b, 1, j - 1), Len(raw))
     /\ SubSeq(b, j + 1, Len(b)) = raw

\* The code point a UTF-8 sequence of one to four bytes stands for.
Utf8Decode(q) ==
  CASE Len(q) = 1 -> q[1]
    [] Len(q) = 2 -> (q[1] - 192) * 64 + (q[2] - 128)
    [] Len(q) = 3 -> (q[1] - 224) * 4096 + (q[2] - 128) * 64 + (q[3] - 128)
    [] Len(q) = 4 ->
         (q[1] - 240) * 262144 + (q[2] - 128) * 4096 + (q[3] - 128) * 64 + (q[4] - 128)
    [] OTHER -> -1

\* C12: an i64 n serializes as i<decimal n>e; a byte string, str or char as
\* <decimal byte length>:<raw bytes>, a char standing as its UTF-8 bytes (a
\* code point of four bytes has the length prefix 4); false as i0e, true
\* as i1e.
ScalarEncoding ==
  (Done /\ kind = "to_bytes" /\ orig \in ScalarCases) =>
     /\ status = "ok"
     /\ orig[1] = "i64" => IsIntToken(input, orig[2])
     /\ orig[1] \in {"Bytes", "str"} => IsBytesToken(input, orig[2])
     /\ orig[1] = "char" =>
          LET raw == SubSeq(input, ScanTo(input, 0, CH_colon) + 1, Len(input))
          IN /\ IsBytesToken(input, raw)
             /\ IsUtf8(raw) /\ Utf8Decode(raw) = orig[2]
             /\ orig[2] >= 65536 => input[1] = CH_0 + 4
     /\ orig[1] = "bool" =>
          input = <<CH_i, IF orig[2] THEN CH_0 + 1 ELSE CH_0, CH_e>>

\* U+1F9D0 has been written as 4: and its four UTF-8 bytes.
ScalarEncodingSeen ==
  /\ Done /\ kind = "to_bytes" /\ status = "ok"
  /\ orig = <<"char", 129488>>
  /\ Len(input) = 6 /\ input[1] = CH_0 + 4 /\ input[2] = CH_colon
  /\ input[3] = 240

\* The serialized elements or field values, one after the other.
RECURSIVE Concat(_)
Concat(elems) ==
  IF elems = <<>> THEN <<>> ELSE to_bytes(Head(elems)).bytes \o Concat(Tail(elems))

\* C13: a unit variant serializes as its tag, a byte string; a newtype
\* variant as d <tag> <inner value> e; a tuple variant as d <tag> l <fields>
\* e e; a struct variant as d <tag> d <fields in key order> e e: one outer
\* dict whose one key is the tag.
VariantEncoding ==
  (Done /\ kind = "to_bytes" /\ orig \in VariantSerCases) =>
     /\ status = "ok"
     /\ orig[1] = "unit_variant" => IsBytesToken(input, orig[2])
     /\ orig[1] # "unit_variant" =>
          LET toks == Tokens(input, 0)
              rest == SubSeq(input, toks[2].to + 1, Len(input) - 1)
          IN /\ Len(toks) >= 3 /\ toks[1].tok[1] = "Map"
             /\ toks[2].tok[1] = "Bytes" /\ toks[2].tok[2] = orig[2]
             /\ IsBytesToken(SubSeq(input, 2, toks[2].to), orig[2])
             /\ input[Len(input)] = CH_e
             /\ rest # <<>> => Complete(input) /\ Complete(rest)
             /\ orig[1] = "newtype_variant" => rest = to_bytes(orig[3]).bytes
             /\ orig[1] = "tuple_variant" =>
                  rest = <<CH_l>> \o Concat(orig[3]) \o <<CH_e>>
             /\ orig[1] = "struct_variant" =>
                  /\ rest[1] = CH_d /\ rest[Len(rest)] = CH_e
                  /\ KeysInOrder(Tokens(rest, 0), 1, <<>>, TRUE)
                  /\ Range(TopEntries(rest)) =
                       {<<orig[3][k][1], to_bytes(orig[3][k][2]).bytes>> :
                          k \in {j \in 1..Len(orig[3]) : ~Absent(orig[3][j][2])}}

\* The tuple variant T(-1, 12) has been written as d1:Tli-1ei12eee.
VariantEncodingSeen ==
  /\ Done /\ kind = "to_bytes" /\ status = "ok"
  /\ orig = <<"tuple_variant", TagT, <<<<"i64", -1>>, <<"i64", 12>>>>>>
  /\ input = <<CH_d>> \o serialize_bytes(TagT) \o <<CH_l>> \o serialize_i64(-1)
               \o serialize_i64(12) \o <<CH_e, CH_e>>

\* What the key encoder hands back for a key it accepts: the bytes of a byte
\* string or str, and for a char the one byte `c as u8`.
RawKey(key) == IF key[1] = "char" THEN <<key[2] % 256>> ELSE key[2]

\* The keys of a map are all byte strings, strs or chars.
StringKeyed(x) == \A k \in 1..Len(x[2]) : x[2][k][1][1] \in {"Bytes", "str", "char"}

\* A map is written with every key as handed back by the key encoder (one
\* length prefix, added when the dict is emitted), and a map with a key of
\* another kind is rejected with the error kind `rejection`.
KeyEncoderWith(rejection) ==
  (Done /\ kind = "to_bytes" /\ orig \in MapKeyCases) =>
     IF StringKeyed(orig)
     THEN LET toks == Tokens(input, 0)
              ents == TopEntries(input)
          IN /\ status = "ok" /\ Complete(input)
             /\ Len(ents) = Len(orig[2])
             /\ {e[1] : e \in Range(ents)} = {RawKey(orig[2][k][1]) : k \in 1..Len(orig[2])}
             /\ \E k \in 1..Len(orig[2]) :
                  IsBytesToken(SubSeq(input, 2, toks[2].to), RawKey(orig[2][k][1]))
     ELSE status = "err" /\ errKind = rejection

Mismatched(w, T) ==
  \/ T = TyString /\ w[1] \in {"Int", "List", "Dict"}
  \/ T \in {TyI64, TyU8} /\ w[1] = "Bytes"
  \/ T = TyByteBuf /\ w[1] = "Int"

Utf8Checked ==
  (Done /\ kind = "exact" /\ <<orig, target>> \in ScalarWireCases /\ orig[1] = "Bytes") =>
     /\ target = TyString =>
          IF orig[2] \in Utf8Strings
          THEN status = "ok" /\ result[1] = "str" /\ result[2] = orig[2]
          ELSE status = "err" /\ errKind = "InvalidValue"
     /\ target = TyValue =>
          status = "ok" /\ result[1] = "Bytes" /\ result[2] = orig[2]

\* The lone lead byte C3, sent as 1:\xC3, has been refused as a String with
\* InvalidValue.
Utf8CheckedSeen ==
  /\ Done /\ kind = "exact" /\ target = TyString /\ orig = <<"Bytes", <<195>>>>
  /\ input = <<CH_0 + 1, CH_colon, 195>>
  /\ status = "err" /\ errKind = "InvalidValue"

\* The T an inner list stands for, field by field in the order of the list.
Positional(w, T) ==
  LET field(k) == IF w[2][k][1] = "Int" THEN <<"i64", w[2][k][2]>>
                  ELSE <<"str", w[2][k][2]>>
  IN IF T[1] = "tuple_struct"
     THEN <<"tuple_struct", [k \in 1..Len(w[2]) |-> field(k)]>>
     ELSE <<"struct", [k \in 1..Len(w[2]) |-> <<T[2][k][1], field(k)>>]>>

\* C17: a list of inner lists decoded as Vec<T>, T a tuple struct or a
\* struct read positionally from a list, returns Ok; with two or more
\* inner lists the vector holds the first element only, and the bytes of
\* the others are left unread.
OnlyFirstDecoded ==
  (Done /\ kind = "exact" /\ <<orig, target>> \in NestedListCases) =>
     /\ status = "ok" /\ result[1] = "vec"
     /\ Len(orig[2]) = 0 => result[2] = <<>>
     /\ Len(orig[2]) >= 1 =>
          /\ Len(result[2]) = 1
          /\ Eq(result[2][1], Positional(orig[2][1], target[2]))
     /\ Len(orig[2]) >= 2 => pos < Len(input) - 1

\* Two inner lists of a string and an integer, decoded as Vec<Node>, have
\* come back as one Node.
OnlyFirstDecodedSeen ==
  /\ Done /\ kind = "exact" /\ status = "ok" /\ target = TyVec(TyNode)
  /\ orig[1] = "List" /\ Len(orig[2]) = 2
  /\ orig[2][1] = <<"List", <<<<"Bytes", NameAB>>, <<"Int", 12>>>>>>
  /\ orig[2][2] = <<"List", <<<<"Bytes", NameA>>, <<"Int", -1>>>>>>
  /\ result[1] = "vec" /\ Len(result[2]) = 1
  /\ result[2][1] = <<"tuple_struct", <<<<"str", NameAB>>, <<"i64", 12>>>>>>

\* C18: the pushback slot holds one token or none.  A token is pushed back
\* only into an empty slot, it is the token just read from the reader, and
\* the reader stands right behind it; the next parse returns exactly that
\* token and reads nothing, and the step that consumes it empties the slot,
\* leaves the reader where it was and hands that token's value to the
\* visitor.
LookaheadHeld ==
  [][/\ next' # NoToken =>
          /\ next = NoToken
          /\ next'[1] \in {"Int", "Bytes", "List", "Map"}
          /\ pos' > pos /\ pos' <= Len(input)
          /\ Len(Tokens(SubSeq(input, pos + 1, pos'), 0)) = 1
          /\ Tokens(SubSeq(input, pos + 1, pos'), 0)[1].tok = next'
          /\ ctl'[1] = "call"
     /\ next # NoToken =>
          /\ LET r == parse(input, pos, next)
             IN r.st = "ok" /\ r.tok = next /\ r.pos = pos /\ r.nxt = NoToken
          /\ next' = NoToken /\ pos' = pos
          /\ (next[1] = "Int" /\ ctl[2] = TyValue) =>
               ctl'[1] = "ret" /\ ctl'[2][1] = "Int" /\ ctl'[2][2] = next[2]
          /\ (next[1] = "Bytes" /\ ctl[2] \in {TyValue, TyByteBuf}) =>
               ctl'[1] = "ret" /\ ctl'[2][2] = next[2]
          /\ (next[1] \in {"List", "Map"} /\ ctl[2] = TyValue) =>
               ctl' = <<"next">> /\ Len(stack') = Len(stack) + 1]_vars

\* A byte string read as the second element of a list sits in the slot,
\* the reader behind it.
LookaheadHeldSeen ==
  /\ status = "run" /\ kind = "exact" /\ ctl = <<"call", TyValue>>
  /\ next = TBytes(<<CH_e>>)
  /\ Len(stack) = 1 /\ Top.k = "seq" /\ Len(Top.acc) = 1
  /\ pos = Len(input) - 1 /\ SubSeq(input, pos - 2, pos) = <<CH_0 + 1, CH_colon, CH_e>>

\* The containers the tokens read so far have opened and not closed.
RECURSIVE Depth(_, _)
Depth(toks, k) ==
  IF k > Len(toks) THEN 0
  ELSE Depth(toks, k + 1)
         + (IF toks[k].tok[1] \in {"List", "Map"} THEN 1
            ELSE IF toks[k].tok[1] = "End" THEN -1 ELSE 0)

PayloadThenKey(w) ==
  /\ w[1] = "Dict" /\ Len(w[2]) = 2
  /\ \/ w[2][1][1] = TagN /\ w[2][1][2][1] = "Int"
     \/ w[2][1][1] = TagT /\ w[2][1][2][1] = "List"
     \/ w[2][1][1] = TagS /\ w[2][1][2][1] = "Dict"

\* C20: a newtype, tuple or struct variant whose payload is followed by
\* anything but the `e` of the wrapping dict (an integer, a byte string, a
\* list start, a dict start, a second key) is refused with InvalidType, and
\* so is a tuple variant whose list holds more elements than the variant
\* has fields; followed by that `e`, the variant decodes.
PayloadTerminated ==
  (Done /\ target = TyMock) =>
     /\ kind \in {"after_payload", "extra_element"} =>
          status = "err" /\ errKind = "InvalidType"
     /\ (kind = "exact" /\ PayloadThenKey(orig)) =>
          status = "err" /\ errKind = "InvalidType"
     /\ (kind = "exact" /\ orig[1] = "Dict" /\ Len(orig[2]) = 1) =>
          IF Len(orig[2][1][2][2]) > 2 THEN status = "err" /\ errKind = "InvalidType"
          ELSE IF Len(orig[2][1][2][2]) < 2 THEN status = "err" /\ errKind = "InvalidLength"
          ELSE /\ status = "ok" /\ result[1] = "tuple_variant"
               /\ result[3] = <<<<"i64", 1>>, <<"i64", 1>>>>
     /\ (kind = "exact" /\ orig \in Mocks) => status = "ok" /\ Eq(result, orig)

\* N(12) written as d1:Ni12e, an i0e, then the closing e: refused with
\* InvalidType.
PayloadTerminatedSeen ==
  /\ Done /\ kind = "after_payload" /\ status = "err" /\ errKind = "InvalidType"
  /\ orig = <<"newtype_variant", TagN, <<"i64", 12>>>>
  /\ input = <<CH_d>> \o serialize_bytes(TagN) \o serialize_i64(12)
               \o serialize_i64(0) \o <<CH_e>>

\* C21: in a dict every key position must hold a byte string token; an
\* integer, a list start or a dict start there makes the decode fail with
\* InvalidType, for a Value as for a struct or a HashMap<String, _>.
KeyMustBeBytes ==
  (Done /\ kind = "raw" /\ input \in KeyDictInputs
     /\ Tokens(input, 0)[2].tok[1] \in {"Int", "List", "Map"}) =>
       status = "err" /\ errKind = "InvalidType"

\* The index of the last entry of ents whose key is key.
LastOf(ents, key) ==
  CHOOSE j \in 1..Len(ents) :
    ents[j][1] = key /\ \A k \in (j + 1)..Len(ents) : ents[k][1] # key

\* C22: a dict whose keys are out of order or repeated decodes into a Value
\* all the same; the Dict holds every key of the input, and for a repeated
\* key the value of its last occurrence.
DictLastWins ==
  (Done /\ kind = "raw" /\ input \in WrittenDicts /\ target = TyValue) =>
     LET ents == TopEntries(input)
     IN /\ status = "ok" /\ result[1] = "Dict"
        /\ DOMAIN result[2] = {e[1] : e \in Range(ents)}
        /\ \A key \in DOMAIN result[2] :
             /\ result[2][key][1] = "Int"
             /\ serialize_i64(result[2][key][2]) = ents[LastOf(ents, key)][2]

\* d 1:b i0e 1:b i1e e has come back as {b: 1}.
DictLastWinsSeen ==
  /\ Done /\ kind = "raw" /\ status = "ok" /\ target = TyValue
  /\ input = <<CH_d>> \o serialize_bytes(NameB) \o serialize_i64(0)
               \o serialize_bytes(NameB) \o serialize_i64(1) \o <<CH_e>>
  /\ result[1] = "Dict" /\ DOMAIN result[2] = {NameB}
  /\ result[2][NameB] = <<"Int", 1>>

\* C23: the first error ends the decode.  A step in which the lexer fails
\* ends from_bytes with that error, the reader where the lexer left it; a
\* step that ends in an error leaves no visitor waiting and no value
\* returned; nothing runs after from_bytes has returned; and a decode that
\* is Ok has read a complete value without meeting an error on the way.
FirstErrorReturned ==
  [][/\ status = "run"
     /\ (ctl[1] = "call" \/ ctl = <<"next">>) =>
          LET r == parse(input, pos, next)
          IN r.st = "err" =>
               /\ status' = "err" /\ errKind' = r.err
               /\ pos' = r.pos /\ next' = NoToken
     /\ status' = "err" =>
          /\ ctl' = <<"done">> /\ stack' = <<>>
          /\ result' = <<"unit">> /\ errKind' # ""
     /\ (status' = "ok" /\ kind' \in {"fuzz", "prefix", "trailing"}) =>
          LET toks == Tokens(input', 0)
              k == ValueEnd(toks, 1, 0)
          IN k # 0 /\ pos' = toks[k].to /\ stack' = <<>>
    ]_vars

\* l i0e x: the list's second element is a byte no token starts with, and
\* from_bytes has returned InvalidValue with the reader behind that byte.
FirstErrorReturnedSeen ==
  /\ Done /\ kind = "fuzz" /\ status = "err" /\ errKind = "InvalidValue"
  /\ input = <<CH_l, CH_i, CH_0, CH_e, CH_x>> /\ pos = 5
  /\ result = <<"unit">> /\ stack = <<>>

\* C24: with the slot empty, the lexer dispatches on the leading byte.  At
\* every position of the input: no byte left is EndOfStream; 'i' gives an
\* Integer token or the integer's error; a digit gives a ByteString token or
\* the byte string's error; 'l', 'd' and 'e' give ListStart, DictStart and End
\* with one byte read; every other byte is InvalidValue.  A decode of input
\* that starts with such a byte returns InvalidValue.
LexerDispatch ==
  /\ \A p \in 0..Len(input) :
       LET r == parse(input, p, NoToken)
       IN IF p = Len(input)
          THEN r.st = "err" /\ r.err = "EndOfStream" /\ r.pos = p
          ELSE LET c == input[p + 1]
               IN /\ c = CH_i => (r.st = "ok" => r.tok[1] = "Int") /\ r.pos > p
                  /\ IsDigit(c) => (r.st = "ok" => r.tok[1] = "Bytes") /\ r.pos > p
                  /\ c = CH_l => r.st = "ok" /\ r.tok[1] = "List" /\ r.pos = p + 1
                  /\ c = CH_d => r.st = "ok" /\ r.tok[1] = "Map" /\ r.pos = p + 1
                  /\ c = CH_e => r.st = "ok" /\ r.tok[1] = "End" /\ r.pos = p + 1
                  /\ (c \notin {CH_i, CH_l, CH_d, CH_e} /\ ~IsDigit(c)) =>
                       r.st = "err" /\ r.err = "InvalidValue" /\ r.pos = p + 1
                  /\ r.st = "ok" => r.nxt = NoToken
  /\ (Done /\ kind = "fuzz") =>
       /\ input = <<>> => status = "err" /\ errKind = "EndOfStream"
       /\ (input # <<>> /\ input[1] \notin {CH_i, CH_l, CH_d, CH_e} /\ ~IsDigit(input[1])) =>
            status = "err" /\ errKind = "InvalidValue" /\ pos = 1
       /\ (input # <<>> /\ input[1] = CH_e) => status = "err"
       /\ (status = "ok" /\ input[1] = CH_i) => result[1] = "Int"
       /\ (status = "ok" /\ IsDigit(input[1])) => result[1] = "Bytes"
       /\ (status = "ok" /\ input[1] = CH_l) => result[1] = "List"
       /\ (status = "ok" /\ input[1] = CH_d) => result[1] = "Dict"

\* The input - l e: the decode has stopped at the '-' with InvalidValue.
LexerDispatchSeen ==
  /\ Done /\ kind = "fuzz" /\ input = <<CH_minus, CH_l, CH_e>>
  /\ status = "err" /\ errKind = "InvalidValue" /\ pos = 1

AllDigits(d) == d # <<>> /\ \A k \in 1..Len(d) : IsDigit(d[k])

\* The integer a span of the form: optional '-', digits, stands for; the
\* span is not of that form or not in i64 range when ok is FALSE.
SpanValue(sp) ==
  LET neg == sp # <<>> /\ sp[1] = CH_minus
      d == IF neg THEN Tail(sp) ELSE sp
      v == IF neg THEN -DecVal(d) ELSE DecVal(d)
  IN IF AllDigits(d) /\ v >= I64_MIN /\ v <= I64_MAX
     THEN [ok |-> TRUE, v |-> v] ELSE [ok |-> FALSE, v |-> 0]

\* C25: an integer token is 'i', an optional '-', digits, 'e', with a value
\* in i64 range, and decodes to that value; every other span closed by 'e'
\* is InvalidValue; a span the input ends in is EndOfStream.
IntegerGrammar ==
  (Done /\ kind = "raw" /\ input \in IntTokenInputs) =>
     LET closed == input[Len(input)] = CH_e
         sp == SubSeq(input, 2, Len(input) - 1)
         sv == SpanValue(sp)
     IN IF ~closed THEN status = "err" /\ errKind = "EndOfStream"
        ELSE IF sv.ok THEN status = "ok" /\ result[1] = "Int" /\ result[2] = sv.v
        ELSE status = "err" /\ errKind = "InvalidValue"

\* The <<key, value>> pairs a call sequence supplies: a key with the value
\* of the call right after it, and the two arguments of an entry.
RECURSIVE PairsOf(_)
PairsOf(calls) ==
  IF calls = <<>> THEN <<>>
  ELSE IF calls[1][1] = "entry"
    THEN <<<<calls[1][2], calls[1][3]>>>> \o PairsOf(Tail(calls))
  ELSE IF calls[1][1] = "key" /\ Len(calls) >= 2 /\ calls[2][1] = "value"
    THEN <<<<calls[1][2], calls[2][2]>>>> \o PairsOf(Tail(Tail(calls)))
  ELSE PairsOf(Tail(calls))

\* How often the entry <<raw key, value bytes>> occurs in the written dict,
\* and how often a pair with that key and that value was supplied.
Written(bytes, e) == Cardinality({j \in 1..Len(TopEntries(bytes)) : TopEntries(bytes)[j] = e})
Supplied(pairs, e) ==
  Cardinality({j \in 1..Len(pairs) :
     /\ pairs[j][1][1] = "str" /\ pairs[j][1][2] = e[1]
     /\ pairs[j][2][1] = "i64" /\ IsIntToken(e[2], pairs[j][2][2])})

\* C26: the key/value protocol of SerializeMap.  At most one key is pending;
\* serialize_key or serialize_entry with a key pending, serialize_value with
\* none, and end with a key pending return InvalidValue, and a failed call
\* writes nothing to the parent buffer; an end that succeeds has written one
\* dict whose entries are the supplied pairs, each key with the value that
\* came right after it.
MapProtocol ==
  [][kind = "map" =>
      LET m == stack[1]
          call == orig'[2][Len(orig'[2])]
          pending == m.cur_key # <<>>
      IN /\ Len(m.cur_key) <= 1 /\ Len(stack'[1].cur_key) <= 1
         /\ (pending /\ call[1] \in {"key", "entry"}) =>
              status' = "err" /\ errKind' = "InvalidValue"
         /\ (~pending /\ call[1] = "value") =>
              status' = "err" /\ errKind' = "InvalidValue"
         /\ (pending /\ call[1] = "end") =>
              status' = "err" /\ errKind' = "InvalidValue"
         /\ status' = "err" => input' = input /\ stack'[1].entries = m.entries
         /\ (~pending /\ call[1] = "key" /\ call[2][1] = "str") =>
              status' = "run" /\ stack'[1].cur_key = <<call[2][2]>> /\ input' = input
         /\ (pending /\ call[1] = "value") =>
              status' = "run" /\ stack'[1].cur_key = <<>> /\ input' = input
         /\ (~pending /\ call[1] = "end") =>
              /\ status' = "ok"
              /\ LET out == SubSeq(input', Len(input) + 1, Len(input'))
                     pairs == PairsOf(orig'[2])
                 IN /\ SubSeq(input', 1, Len(input)) = input
                    /\ Complete(out) /\ out[1] = CH_d
                    /\ \A k \in {NameA, NameB}, n \in {0, 1} :
                         Written(out, <<k, serialize_i64(n)>>) = Supplied(pairs, <<k, serialize_i64(n)>>)
                    /\ Len(TopEntries(out)) =
                         Cardinality({j \in 1..Len(pairs) : pairs[j][2][1] = "i64"})
    ]_vars

\* key b, value 1, entry (a, 0), end: the dict d 1:a i0e 1:b i1e e was written
\* behind the open list of the parent buffer.
MapProtocolSeen ==
  /\ kind = "map" /\ Done /\ status = "ok"
  /\ orig[2] = <<<<"key", <<"str", NameB>>>>, <<"value", <<"i64", 1>>>>,
                 <<"entry", <<"str", NameA>>, <<"i64", 0>>>>, <<"end">>>>
  /\ input = <<CH_l, CH_d>> \o serialize_bytes(NameA) \o serialize_i64(0)
               \o serialize_bytes(NameB) \o serialize_i64(1) \o <<CH_e>>

\* A second key was offered while one was pending, and the call failed.
MapProtocolRejected ==
  /\ kind = "map" /\ Done /\ status = "err" /\ errKind = "InvalidValue"
  /\ orig[2] = <<<<"key", <<"str", NameA>>>>, <<"key", <<"str", NameB>>>>>>
  /\ input = <<>>

Count(toks, tags) == Cardinality({j \in 1..Len(toks) : toks[j].tok[1] \in tags})

\* C27: balanced consumption.  Whenever from_bytes::<Value> returns Ok, the
\* bytes read are the tokens of the first complete value and nothing more:
\* as many End tokens as ListStart and DictStart tokens, the value complete
\* at the last token read and at none before it, the reader at the end of
\* that token, and the slot empty.
BalancedConsumption ==
  (Done /\ status = "ok" /\ target = TyValue
     /\ kind \in {"fuzz", "exact", "prefix", "trailing"}) =>
     LET toks == Tokens(SubSeq(input, 1, pos), 0)
         all == Tokens(input, 0)
     IN /\ next = NoToken
        /\ toks # <<>> /\ toks[Len(toks)].to = pos
        /\ Count(toks, {"End"}) = Count(toks, {"List", "Map"})
        /\ ValueEnd(toks, 1, 0) = Len(toks)
        /\ ValueEnd(all, 1, 0) = Len(toks)
        /\ \A j \in 1..Len(toks) : all[j] = toks[j]

\* l d e e i: the list holding an empty dict was decoded from the first four
\* bytes, two openers and two Ends, and the fifth byte was not read.
BalancedConsumptionSeen ==
  /\ Done /\ status = "ok" /\ kind = "fuzz" /\ target = TyValue
  /\ input = <<CH_l, CH_d, CH_e, CH_e, CH_i>> /\ pos = 4 /\ next = NoToken
  /\ result[1] = "List" /\ Len(result[2]) = 1

\* C28: termination.  On every finite input from_bytes::<Value> returns, with
\* Ok or with Err.
Terminates == <>(Done /\ status \in {"ok", "err"})

\* from_bytes::<Value> stops on every finite input: it returns or it panics.
Stops == <>Done

\* Every step that calls parse takes the token in the slot and leaves the
\* reader where it is, or reads at least one byte, or fails with EndOfStream
\* at the end of the input; and the bytes left plus the pending frames shrink.
ParseProgress ==
  [][(kind \in {"fuzz", "exact", "prefix", "trailing"} /\ status = "run"
        /\ (ctl[1] = "call" \/ ctl = <<"next">>)) =>
       \/ next # NoToken /\ pos' = pos /\ next' = NoToken
       \/ next = NoToken /\ pos' > pos
       \/ next = NoToken /\ pos = Len(input) /\ pos' = pos
            /\ status' = "err" /\ errKind' = "EndOfStream"
    ]_vars

\* C29: decoding does not depend on how the reader chunks its data.  Every
\* call of parse on a Deserializer over a Read source gives what the same
\* call gives on the whole byte sequence (the same token, the same error,
\* the reader as far); and a byte string fails with EndOfStream only when
\* fewer bytes are left in the source than its declared length.
ChunkingIrrelevant ==
  [][kind = "reader" =>
       LET r == parse(input, pos, NoToken)
       IN /\ pos' = r.pos
          /\ r.st = "ok" => status' = "run" /\ result' = r.tok
          /\ r.st = "err" => status' = "err" /\ errKind' = r.err
          /\ r.st = "panic" => status' = "panic"
          /\ (status' = "err" /\ errKind' = "EndOfStream" /\ pos < Len(input)
                /\ IsDigit(input[pos + 1])
                /\ parse_bytes_len(input, pos + 1).st = "ok") =>
               LET l == parse_bytes_len(input, pos + 1)
               IN Len(input) - l.pos < l.tok[2]
    ]_vars

\* C30: serialize_u64 wraps.  A u64 below 2^63 is written as 'i', its decimal
\* digits, 'e'; a u64 from 2^63 on is written as the negative integer
\* v - 2^64; the encoder returns no error for a u64.
U64Wraps ==
  (Done /\ kind \in {"to_bytes", "to_string"} /\ orig[1] = "u64") =>
     LET v == orig[2]
     IN /\ status = "ok"
        /\ IF v < 2^(WordBits - 1) THEN IsIntToken(input, v)
           ELSE IsIntToken(input, v - 2^WordBits) /\ input[2] = CH_minus

\* The largest u64 was written as i-1e.
U64WrapsSeen ==
  /\ Done /\ kind = "to_bytes" /\ orig = <<"u64", USIZE_MAX>> /\ status = "ok"
  /\ input = <<CH_i, CH_minus, CH_0 + 1, CH_e>>

====
